---- MODULE Spec2Model ----
(***************************************************************************)
(* State-machine model of the AGCCE governance pipeline:                   *)
(*   - scripts/audit_trail.py       hash-chained audit log                 *)
(*   - scripts/event_dispatcher.py  webhook delivery, idempotency, queue   *)
(*   - scripts/validate_plan.py     structural validation of a plan        *)
(*   - scripts/hitl_gate.py         approval records and the HITL gate     *)
(*   - scripts/orchestrator.py      the four phases of a pipeline run      *)
(*   - scripts/plan_generator.py    semantic validation, self-correction   *)
(*   - scripts/graceful_recovery.py retries of an agent task, escalation   *)
(*   - scripts/task_queue.py        the persistent task queue              *)
(*   - scripts/blackboard.py        the state shared between agents        *)
(*                                                                         *)
(* Modelling conventions                                                   *)
(*   A Python dict is a sequence of <<key, value>> pairs in insertion      *)
(*   order.  A key is IntKey(n) or StrKey(s); a string is the sequence of  *)
(*   its code points.  A JSON object (what json.dumps writes and what      *)
(*   json.loads reads) has only string keys.                               *)
(*   HMAC-SHA256 / SHA-256 are ideal (collision-free): the digest of a     *)
(*   message is the term <<"hmac", message>>.                              *)
(***************************************************************************)
EXTENDS Integers, Sequences, FiniteSets, TLC

VARIABLES
    \* ---- audit_trail.py ----
    log_exists,     \* os.path.exists(AUDIT_LOG_FILE)
    log_file,       \* the lines of logs/audit_trail.jsonl, each a JSON object
    clock,          \* datetime.now(), a logical clock
    export_file,    \* the JSON document last written by AuditTrail.export
    audit_op,       \* the audit operation that ran last
    audit_ret,      \* what it returned
    tampered,       \* the external alteration made to the log, if any
    \* ---- event_dispatcher.py ----
    webhook_config, \* EventDispatcher._config: event type -> URL ("" = not configured)
    idem_file,      \* the keys of logs/idempotency_keys.json
    queue_exists,   \* os.path.exists(QUEUE_FILE)
    queue_file,     \* the lines of logs/queue.jsonl
    runs,           \* the _send_with_retry calls started so far, one per emission
    pq,             \* the process_queue call in progress
    calls,          \* number of emit / process_queue calls made
    disp_op,        \* the emit / process_queue call made last, and what it did
    effects,        \* (event type, plan id) -> number of 2xx responses received
    emitted,        \* the (event type, plan id) pairs emit was called with
    forced,         \* whether some emission ran with force=true
    \* ---- validate_plan.py ----
    plan,           \* the plan (the JSON document of the plan file)
    val_ret,        \* what validate_steps returned for it
    \* ---- hitl_gate.py, orchestrator.py ----
    approvals,      \* .hitl_approvals.json: (plan id, step id) -> decision record
    now,            \* datetime.now(), in seconds
    ticks,          \* number of times the clock has advanced
    hitl_calls,     \* number of hitl_gate / orchestrator calls made
    hitl_op,        \* the hitl_gate call that returned last, and its result
    ia,             \* the interactive_approval call in progress
    orch,           \* the orchestrator run in progress
    \* ---- plan_generator.py ----
    fs_files,       \* the files on disk, each the components of its path from the
                    \* working directory
    indexed,        \* indexed_files of .rag_index_state.json
    sem_ret,        \* what validate_semantic_existence returned for the plan
    gen,            \* the generate_plan_with_self_correction call in progress
    plans_dir,      \* the files of plans/: name -> plan
    fs_changes,     \* number of files other programs have removed
    \* ---- graceful_recovery.py ----
    rec,            \* the execute_with_recovery call in progress, and what it returned
    recovery_log,   \* the lines of logs/recovery_events.jsonl
    esc_op,         \* the should_escalate_to_user call made last, and its result
    \* ---- task_queue.py ----
    tq_files,       \* plans/queue: directory -> (task id -> task in TASK-<id>.json)
    tq_now,         \* datetime.now(), in half seconds
    tq_calls,       \* the number of TaskQueue calls made
    tq_op,          \* the TaskQueue call made last, and what it returned
    \* ---- callers that run at the same time ----
    log_writers,      \* writer -> the AuditTrail.log call it is in
    approval_writers, \* writer -> the approve_step / reject_step call it is in
    tq_workers,       \* worker -> the TaskQueue.get_next call it is in
    \* ---- blackboard.py ----
    bb_state,       \* logs/current_state.json
    bb_history,     \* the lines of logs/state_history.jsonl
    bb_lock,        \* _lock: the thread that holds it, or 0
    bb_threads      \* thread -> the Blackboard call it is in

auditVars == <<log_exists, log_file, clock, export_file, audit_op, audit_ret, tampered>>

dispVars == <<webhook_config, idem_file, queue_exists, queue_file, runs, pq, calls,
              disp_op, effects, emitted, forced>>

planVars == <<plan, val_ret>>

hitlVars == <<approvals, now, ticks, hitl_calls, hitl_op, ia, orch>>

genVars == <<fs_files, indexed, sem_ret, gen, plans_dir, fs_changes>>

recVars == <<rec, recovery_log, esc_op>>

tqVars == <<tq_files, tq_now, tq_calls, tq_op>>

concVars == <<log_writers, approval_writers, tq_workers>>

bbVars == <<bb_state, bb_history, bb_lock, bb_threads>>

vars == <<auditVars, dispVars, planVars, hitlVars, genVars, recVars, tqVars, concVars, bbVars>>

\* The variables of the other components, which an audit operation leaves alone.
AuditFrame ==
    UNCHANGED <<dispVars, planVars, hitlVars, genVars, recVars, tqVars,
                concVars, bbVars>>

\* The variables of the other components but the concurrent callers and the
\* blackboard.
AuditFrameOthers == UNCHANGED <<dispVars, planVars, hitlVars, genVars, recVars, tqVars>>

\* The variables of the other components, which the dispatcher leaves alone.
DispFrame ==
    UNCHANGED <<auditVars, planVars, hitlVars, genVars, recVars, tqVars,
                concVars, bbVars>>

\* The variables of the other components, which the plan validator leaves alone.
PlanFrame ==
    UNCHANGED <<auditVars, dispVars, hitlVars, genVars, recVars, tqVars,
                concVars, bbVars>>

\* The variables of the other components, which the plan generator leaves alone.
GenFrame ==
    UNCHANGED <<auditVars, dispVars, hitlVars, recVars, tqVars,
                concVars, bbVars>>

\* The variables of the other components, which the gate and the orchestrator
\* leave alone (they read the plan file and never write it).
HitlFrame ==
    UNCHANGED <<auditVars, dispVars, planVars, genVars, recVars, tqVars,
                concVars, bbVars>>

\* The variables of the other components but the concurrent callers and the
\* blackboard.
HitlFrameOthers == UNCHANGED <<auditVars, dispVars, planVars, genVars, recVars, tqVars>>

\* The variables of the other components, which graceful_recovery.py leaves alone.
RecFrame ==
    UNCHANGED <<auditVars, dispVars, planVars, hitlVars, genVars, tqVars,
                concVars, bbVars>>

\* The variables of the other components, which blackboard.py leaves alone.
BbFrame ==
    UNCHANGED <<auditVars, dispVars, planVars, hitlVars, genVars, recVars, tqVars,
                concVars>>

\* The variables of the other components, which task_queue.py leaves alone.
TqFrame ==
    UNCHANGED <<auditVars, dispVars, planVars, hitlVars, genVars, recVars,
                concVars, bbVars>>

(***************************************************************************)
(* Bounds                                                                  *)
(***************************************************************************)
\* AuditTrail.log is called at most MaxLogCalls times.
MaxLogCalls == 2

\* EventDispatcher.emit and process_queue are called at most MaxDispCalls times.
MaxDispCalls == 2

\* A plan given to the validator has at most MaxSteps steps.
MaxSteps == 2

\* A step of a plan given to validate_dependencies names at most MaxDeps
\* dependencies.
MaxDeps == 2

\* affected_files, steps and analyzed_paths of a plan given to the semantic
\* validator have at most MaxPaths entries each.
MaxPaths == 1

\* Other programs remove at most MaxFsChanges files while the generator runs.
MaxFsChanges == 1

\* The clock advances at most MaxTicks times.
MaxTicks == 2

\* hitl_gate and the orchestrator are called at most MaxHitlCalls times.
MaxHitlCalls == 2

\* execute_with_recovery is called with max_retries of at most
\* MaxRecoveryRetries.
MaxRecoveryRetries == 2

\* At most MaxTqCalls calls of TaskQueue are made, and the clock of the queue
\* advances at most MaxTqTicks half seconds.
MaxTqCalls == 5
MaxTqTicks == 2

\* Each thread makes at most MaxBbCalls calls of Blackboard.
MaxBbCalls == 2

(***************************************************************************)
(* Strings, keys and JSON                                                  *)
(***************************************************************************)
Digit(d) == 48 + d

RECURSIVE IntToStr(_)
IntToStr(n) == IF n < 10 THEN <<Digit(n)>> ELSE IntToStr(n \div 10) \o <<Digit(n % 10)>>

IntKey(n) == [kind |-> "int", n |-> n, s |-> <<>>]
StrKey(s) == [kind |-> "str", n |-> 0, s |-> s]

\* json.dumps writes every dict key as a string.
KeyText(k) == IF k.kind = "int" THEN IntToStr(k.n) ELSE k.s

RECURSIVE LexLess(_, _)
LexLess(s, t) ==
    IF t = <<>> THEN FALSE
    ELSE IF s = <<>> THEN TRUE
    ELSE IF Head(s) # Head(t) THEN Head(s) < Head(t)
    ELSE LexLess(Tail(s), Tail(t))

\* Python's < on two dict keys of the same type.
KeyLess(a, b) == IF a.kind = "int" THEN a.n < b.n ELSE LexLess(a.s, b.s)

\* sorted(dct.items()) raises TypeError on keys of different types.
Sortable(d) == \A i, j \in 1..Len(d) : d[i][1].kind = d[j][1].kind

RECURSIVE InsertSorted(_, _)
InsertSorted(p, sorted) ==
    IF sorted = <<>> THEN <<p>>
    ELSE IF KeyLess(p[1], Head(sorted)[1]) THEN <<p>> \o sorted
    ELSE <<Head(sorted)>> \o InsertSorted(p, Tail(sorted))

RECURSIVE SortItems(_)
SortItems(d) == IF d = <<>> THEN <<>> ELSE InsertSorted(Head(d), SortItems(Tail(d)))

\* json.dumps(d): the items in insertion order, keys as text.
JsonDumps(d) == [i \in 1..Len(d) |-> <<KeyText(d[i][1]), d[i][2]>>]

\* json.dumps(d, sort_keys=True): items sorted by the dict's own keys, then
\* written with keys as text.
JsonDumpsSorted(d) == JsonDumps(SortItems(d))

\* json.loads(text): a dict whose keys are all strings.
JsonLoads(j) == [i \in 1..Len(j) |-> <<StrKey(j[i][1]), j[i][2]>>]

(***************************************************************************)
(* audit_trail.py                                                          *)
(***************************************************************************)
GENESIS == <<"GENESIS">>

\* _generate_checksum: HMAC-SHA256 of the data under AUDIT_SECRET_KEY.
GenerateChecksum(data) == <<"hmac", data>>

\* AuditTrail.EVENT_TYPES.get(event_type, event_type)
EventDescription(event_type) ==
    CASE event_type = "plan_created" -> "Plan creado"
      [] event_type = "file_deleted" -> "Archivo eliminado"
      [] OTHER -> event_type

\* Inputs of AuditTrail.log: an event type inside and one outside EVENT_TYPES,
\* and details dicts: {}, {"a": 1}, {"b": 1, "a": 2}, {9: 1, 10: 2}, {1: 1, "a": 2}.
AuditEventInputs == {"plan_created", "deploy"}
DetailsInputs ==
    { <<>>,
      << <<StrKey(<<97>>), 1>> >>,
      << <<StrKey(<<98>>), 1>>, <<StrKey(<<97>>), 2>> >>,
      << <<IntKey(9), 1>>, <<IntKey(10), 2>> >>,
      << <<IntKey(1), 1>>, <<StrKey(<<97>>), 2>> >> }

\* Mutant of _get_previous_hash: the last line is never read.
GetPreviousHashNeverReads == GENESIS

\* _get_previous_hash
GetPreviousHash ==
    IF ~log_exists THEN GENESIS
    ELSE IF log_file # <<>> THEN log_file[Len(log_file)].entry_hash
    ELSE GENESIS

\* AuditTrail._get_sequence_number
GetSequenceNumber == IF ~log_exists THEN 1 ELSE Len(log_file) + 1

\* json.dumps(entry, sort_keys=True) of an entry without entry_hash and checksum;
\* `details` is the entry's details dict as it is in memory.
EntryData(entry, details) ==
    [ timestamp         |-> entry.timestamp,
      event_type        |-> entry.event_type,
      event_description |-> entry.event_description,
      actor             |-> entry.actor,
      severity          |-> entry.severity,
      details           |-> JsonDumpsSorted(details),
      previous_hash     |-> entry.previous_hash,
      hostname          |-> entry.hostname,
      sequence          |-> entry.sequence ]

\* The line AuditTrail.log writes, json.dumps(entry) with both digests added,
\* from the timestamp, the previous hash and the sequence number it has read.
EntryLine(event_type, details, timestamp, previous_hash, sequence) ==
    LET entry == [ timestamp         |-> timestamp,
                   event_type        |-> event_type,
                   event_description |-> EventDescription(event_type),
                   actor             |-> "system",
                   severity          |-> "info",
                   previous_hash     |-> previous_hash,
                   hostname          |-> "local",
                   sequence          |-> sequence ]
        entry_data == EntryData(entry, details)
    IN  [ timestamp         |-> entry.timestamp,
          event_type        |-> entry.event_type,
          event_description |-> entry.event_description,
          actor             |-> entry.actor,
          severity          |-> entry.severity,
          details           |-> JsonDumps(details),
          previous_hash     |-> previous_hash,
          hostname          |-> entry.hostname,
          sequence          |-> entry.sequence,
          entry_hash        |-> GenerateChecksum(entry_data),
          checksum          |-> GenerateChecksum(<<previous_hash, entry_data>>) ]

\* The line of a call that nothing runs beside.
LogLine(event_type, details) ==
    EntryLine(event_type, details, clock, GetPreviousHash, GetSequenceNumber)

\* Mutant of the append: the file is opened with 'w' and so truncated.
AppendLineTruncating(file, line) == <<line>>

\* open(AUDIT_LOG_FILE, 'a').write(line)
AppendLine(file, line) == Append(file, line)

\* AuditTrail.log(event_type, details): json.dumps raises TypeError before the
\* file is opened when the details cannot be sorted.
Log(event_type, details) ==
    /\ clock <= MaxLogCalls
    /\ IF Sortable(details)
       THEN /\ log_file' = AppendLine(log_file, LogLine(event_type, details))
            /\ log_exists' = TRUE
            /\ audit_op' = "log"
            /\ audit_ret' = LogLine(event_type, details)
       ELSE /\ UNCHANGED <<log_file, log_exists>>
            /\ audit_op' = "log_raised"
            /\ audit_ret' = "TypeError"
    /\ clock' = clock + 1
    /\ UNCHANGED <<export_file, tampered>>
    /\ AuditFrame

\* The writers that call AuditTrail.log at the same time.
LogWriters == {1, 2}

WriterIdle == [pc |-> "idle"]

\* A writer calls AuditTrail.log(event_type, details) and takes the timestamp.
WriterBegin(w, event_type, details) ==
    /\ log_writers[w].pc \in {"idle", "done"}
    /\ clock <= MaxLogCalls
    /\ log_writers' = [log_writers EXCEPT ![w] =
           [pc |-> "previous_hash", event_type |-> event_type, details |-> details,
            timestamp |-> clock]]
    /\ clock' = clock + 1
    /\ UNCHANGED <<log_exists, log_file, export_file, audit_op, audit_ret, tampered>>
    /\ UNCHANGED <<approval_writers, tq_workers, bbVars>>
    /\ AuditFrameOthers

\* previous_hash = _get_previous_hash()
WriterReadHash(w) ==
    /\ log_writers[w].pc = "previous_hash"
    /\ log_writers' = [log_writers EXCEPT ![w] =
           [pc |-> "sequence", event_type |-> @.event_type, details |-> @.details,
            timestamp |-> @.timestamp, previous_hash |-> GetPreviousHash]]
    /\ UNCHANGED auditVars
    /\ UNCHANGED <<approval_writers, tq_workers, bbVars>>
    /\ AuditFrameOthers

\* "sequence": AuditTrail._get_sequence_number()
WriterReadSequence(w) ==
    /\ log_writers[w].pc = "sequence"
    /\ log_writers' = [log_writers EXCEPT ![w] =
           [pc |-> "append", event_type |-> @.event_type, details |-> @.details,
            timestamp |-> @.timestamp, previous_hash |-> @.previous_hash,
            sequence |-> GetSequenceNumber]]
    /\ UNCHANGED auditVars
    /\ UNCHANGED <<approval_writers, tq_workers, bbVars>>
    /\ AuditFrameOthers

\* The digests of the entry and the append of its line.
WriterAppend(w) ==
    /\ log_writers[w].pc = "append"
    /\ LET me == log_writers[w]
           line == EntryLine(me.event_type, me.details, me.timestamp,
                             me.previous_hash, me.sequence)
       IN  /\ log_file' = AppendLine(log_file, line)
           /\ log_exists' = TRUE
           /\ audit_op' = "log"
           /\ audit_ret' = line
    /\ log_writers' = [log_writers EXCEPT ![w] = [pc |-> "done"]]
    /\ UNCHANGED <<clock, export_file, tampered>>
    /\ UNCHANGED <<approval_writers, tq_workers, bbVars>>
    /\ AuditFrameOthers

\* Python truthiness of a stored digest (None and "" are false).
Truthy(h) == h # <<>>

\* The loop of AuditTrail.verify_integrity from entry i on.
RECURSIVE VerifyEntries(_, _, _)
VerifyEntries(entries, i, previous_hash) ==
    IF i > Len(entries) THEN <<>>
    ELSE LET entry == entries[i]
             chain == IF entry.previous_hash # previous_hash
                      THEN <<[entry |-> i, error |-> "Hash anterior no coincide"]>>
                      ELSE <<>>
             stored_hash == entry.entry_hash
             expected_hash == GenerateChecksum(EntryData(entry, JsonLoads(entry.details)))
             corrupt == IF Truthy(stored_hash) /\ stored_hash # expected_hash
                        THEN <<[entry |-> i, error |-> "Hash de entrada corrupto"]>>
                        ELSE <<>>
         IN  chain \o corrupt \o VerifyEntries(entries, i + 1, stored_hash)

\* AuditTrail.verify_integrity(), as a function of the file it reads.
VerifyIntegrity(exists, file) ==
    IF ~exists \/ file = <<>>
    THEN [valid |-> TRUE, entries |-> 0, errors |-> <<>>]
    ELSE LET errors == VerifyEntries(file, 1, GENESIS)
         IN  [valid |-> Len(errors) = 0, entries |-> Len(file), errors |-> errors]

Verify ==
    /\ audit_op' = "verify"
    /\ audit_ret' = VerifyIntegrity(log_exists, log_file)
    /\ UNCHANGED <<log_exists, log_file, clock, export_file, tampered>>
    /\ AuditFrame

\* since=None: the logical clock starts after it.
NoSince == 0

RECURSIVE SelectEntries(_, _, _)
SelectEntries(file, since, event_types) ==
    IF file = <<>> THEN <<>>
    ELSE LET entry == Head(file)
             skip == \/ (since # NoSince /\ entry.timestamp < since)
                     \/ (event_types # {} /\ entry.event_type \notin event_types)
         IN  (IF skip THEN <<>> ELSE <<entry>>)
             \o SelectEntries(Tail(file), since, event_types)

\* AuditTrail.export(filepath, since, event_types); filepath names a file other
\* than the audit log.
Export(since, event_types) ==
    /\ audit_op' = "export"
    /\ IF ~log_exists
       THEN /\ audit_ret' = 0
            /\ UNCHANGED export_file
       ELSE LET entries == SelectEntries(log_file, since, event_types)
            IN  /\ export_file' = [ total_entries   |-> Len(entries),
                                    integrity_check |-> VerifyIntegrity(log_exists, log_file),
                                    entries         |-> entries ]
                /\ audit_ret' = Len(entries)
    /\ UNCHANGED <<log_exists, log_file, clock, tampered>>
    /\ AuditFrame

NoExport == [total_entries |-> 0, integrity_check |-> "None", entries |-> <<>>]
NotTampered == [k |-> 0, field |-> "none", was_valid |-> TRUE]

InitAudit ==
    /\ log_exists \in BOOLEAN
    /\ log_file = <<>>
    /\ clock = 1
    /\ export_file = NoExport
    /\ audit_op = "init"
    /\ audit_ret = "None"
    /\ tampered = NotTampered

LogAny == \E event_type \in AuditEventInputs, details \in DetailsInputs : Log(event_type, details)

ExportAny ==
    \E since \in {NoSince} \cup 1..clock, event_types \in {{}, {"plan_created"}} :
        Export(since, event_types)

NextAudit == LogAny \/ Verify \/ ExportAny

(***************************************************************************)
(* An external alteration of one stored entry (no audit operation does     *)
(* this): one field of line k is replaced by another value and no digest   *)
(* is recomputed.                                                          *)
(***************************************************************************)
Junk == <<"deadbeefdeadbeef">>
Falsy == <<>>

EntryFields ==
    { "timestamp", "event_type", "event_description", "actor", "severity", "details",
      "previous_hash", "hostname", "sequence", "entry_hash", "checksum" }

\* The digests stored in the file, as values an alteration can copy.
StoredHashes(file) == {file[i].entry_hash : i \in 1..Len(file)}

AlteredValues(file, field, old) ==
    (CASE field \in {"timestamp", "sequence"} -> {old + 1}
       [] field = "event_type" -> {"file_deleted"}
       [] field \in {"event_description", "actor", "severity", "hostname"} -> {"altered"}
       [] field = "details" -> {<<>>, << <<(<<97>>), 7>> >>}
       [] field \in {"previous_hash", "entry_hash"} ->
              {GENESIS, Junk, Falsy} \cup StoredHashes(file)
       [] field = "checksum" -> {Junk, Falsy}) \ {old}

Tamper(k, field, value) ==
    /\ tampered = NotTampered
    /\ k \in 1..Len(log_file)
    /\ log_file' = [log_file EXCEPT ![k] = [@ EXCEPT ![field] = value]]
    /\ tampered' = [ k |-> k, field |-> field,
                     was_valid |-> VerifyIntegrity(log_exists, log_file).valid ]
    /\ audit_op' = "tamper"
    /\ audit_ret' = "None"
    /\ UNCHANGED <<log_exists, clock, export_file>>
    /\ AuditFrame

TamperAny ==
    \E k \in 1..Len(log_file), field \in EntryFields :
        \E value \in AlteredValues(log_file, field, log_file[k][field]) :
            Tamper(k, field, value)

NextAuditTamper == LogAny \/ Verify \/ TamperAny

(***************************************************************************)
(* event_dispatcher.py                                                     *)
(*                                                                         *)
(* emit runs on the main thread; _send_with_retry runs on the main thread  *)
(* (async_mode=False) or on a daemon thread of its own (async_mode=True).  *)
(* A step is one delivery attempt, one file read or one file write.  The   *)
(* envelope keeps the fields some operation reads (event_type,             *)
(* idempotency_key, payload.plan_id); timestamp, description and system    *)
(* context are carried along unread and are left out.                      *)
(***************************************************************************)
MAX_RETRIES == 3

\* RETRY_DELAYS, in seconds
RETRY_DELAYS == <<1, 5, 15>>

\* Mutant of the backoff: every wait is the first interval.
RetryDelayAlwaysFirst(attempt) == RETRY_DELAYS[1]

\* _send_with_retry: `delay = RETRY_DELAYS[attempt]` (attempt counts from 0)
RetryDelay(attempt) == RETRY_DELAYS[attempt + 1]

\* The event types emit is called with: two of CRITICAL_EVENTS and one outside.
CRITICAL_EVENTS == {"PLAN_VALIDATED", "EXECUTION_ERROR"}
EventInputs == CRITICAL_EVENTS \cup {"NOT_AN_EVENT"}

\* payload.get("plan_id", ""): absent or empty, or one of two plans.
PlanIdInputs == {"", "PLAN-A", "PLAN-B"}

\* config/n8n_webhooks.json: PLAN_VALIDATED has a destination, EXECUTION_ERROR
\* has none (the default_config of load_webhook_config).
ConfigInput == [e \in CRITICAL_EVENTS |-> IF e = "PLAN_VALIDATED" THEN "http://n8n/hook" ELSE ""]

\* What urlopen gives: an HTTP status, or 0 for a URLError (no response).
StatusInputs == {0, 200, 500}

Pairs == CRITICAL_EVENTS \X PlanIdInputs

None == <<>>

\* EventDispatcher.get_webhook_url (no configured URL starts with "_")
GetWebhookUrl(event_type) ==
    IF event_type \in DOMAIN webhook_config /\ webhook_config[event_type] # ""
    THEN webhook_config[event_type] ELSE ""

\* EventDispatcher.is_event_valid
IsEventValid(event_type) == event_type \in CRITICAL_EVENTS

\* generate_idempotency_key: SHA-256 of "event_type:plan_id"
GenerateIdempotencyKey(event_type, plan_id) == <<"sha256", event_type \o ":" \o plan_id>>

\* Mutant of check_idempotency: the stored keys are not looked up.
CheckIdempotencyNoLookup(event_type, plan_id) ==
    IF plan_id = "" THEN [is_duplicate |-> FALSE, key |-> None]
    ELSE [is_duplicate |-> FALSE, key |-> GenerateIdempotencyKey(event_type, plan_id)]

\* EventDispatcher.check_idempotency -> (is_duplicate, idempotency_key)
CheckIdempotency(event_type, plan_id) ==
    IF plan_id = "" THEN [is_duplicate |-> FALSE, key |-> None]
    ELSE LET key == GenerateIdempotencyKey(event_type, plan_id)
         IN  [is_duplicate |-> key \in idem_file, key |-> key]

\* The endpoint answered 2xx: the delivery took effect there.
Is2xx(status) == status \in 200..299

\* Mutant of the status test: no upper bound.
IsSuccessNoUpperBound(status) == status >= 200

\* _send_webhook: `if status >= 200 and status < 300`
IsSuccess(status) == status >= 200 /\ status < 300

\* full_payload of emit
FullPayload(event_type, plan_id, key) ==
    [event_type |-> event_type, idempotency_key |-> key, payload |-> [plan_id |-> plan_id]]

\* queue_event: the line appended to QUEUE_FILE
QueueEntry(event_type, payload) ==
    [event_type |-> event_type, payload |-> payload, status |-> "pending"]

Ended(run) == run.pc \in {"ok", "failed"}

\* The main thread is inside neither a synchronous emit nor process_queue.
MainFree ==
    /\ pq.pc = "idle"
    /\ \A r \in 1..Len(runs) : runs[r].async \/ Ended(runs[r])

NoCall == [op |-> "none"]

\* EventDispatcher.emit(event_type, {"plan_id": plan_id}, force, async_mode) up to
\* the start of _send_with_retry.
Emit(event_type, plan_id, force, async_mode) ==
    /\ MainFree
    /\ calls < MaxDispCalls
    /\ calls' = calls + 1
    /\ LET check == CheckIdempotency(event_type, plan_id)
           starts == /\ IsEventValid(event_type)
                     /\ GetWebhookUrl(event_type) # ""
                     /\ ~(check.is_duplicate /\ ~force)
       IN  /\ disp_op' = [ op |-> "emit", event_type |-> event_type, plan_id |-> plan_id,
                           force |-> force,
                           repeat |-> <<event_type, plan_id>> \in emitted,
                           recorded |-> check.is_duplicate,
                           started |-> starts ]
           /\ IF starts
              THEN /\ runs' = Append(runs,
                        [ event_type |-> event_type, plan_id |-> plan_id, key |-> check.key,
                          async |-> async_mode, attempt |-> 0,
                          pc |-> "send", keys_read |-> {}, got2xx |-> FALSE,
                          waits |-> <<>> ])
                   /\ forced' = (forced \/ force)
              ELSE UNCHANGED <<runs, forced>>
           /\ emitted' = IF IsEventValid(event_type) /\ GetWebhookUrl(event_type) # ""
                         THEN emitted \cup {<<event_type, plan_id>>} ELSE emitted
    /\ UNCHANGED <<webhook_config, idem_file, queue_exists, queue_file, pq, effects>>
    /\ DispFrame

\* One pass of the loop of _send_with_retry: _send_webhook gets `status`.  On a
\* 2xx, save_idempotency_key first loads the stored keys; on a failure that is
\* not the last, the thread sleeps RETRY_DELAYS[attempt] (recorded in waits).
SendAttempt(r, status) ==
    /\ r \in 1..Len(runs)
    /\ runs[r].pc = "send"
    /\ LET run == runs[r]
       IN  /\ effects' = IF Is2xx(status)
                         THEN [effects EXCEPT ![<<run.event_type, run.plan_id>>] = @ + 1]
                         ELSE effects
           /\ IF IsSuccess(status)
              THEN runs' = [runs EXCEPT ![r] =
                       [@ EXCEPT !.got2xx = Is2xx(status),
                                 !.keys_read = IF run.key # None THEN idem_file ELSE {},
                                 !.pc = IF run.key # None THEN "save" ELSE "ok"]]
              ELSE runs' = [runs EXCEPT ![r] =
                       [@ EXCEPT !.attempt = run.attempt + 1,
                                 !.waits = IF run.attempt < MAX_RETRIES - 1
                                           THEN Append(@, RetryDelay(run.attempt))
                                           ELSE @,
                                 !.pc = IF run.attempt + 1 < MAX_RETRIES
                                        THEN "send" ELSE "queue"]]
    /\ UNCHANGED <<webhook_config, idem_file, queue_exists, queue_file, pq, calls,
                   disp_op, emitted, forced>>
    /\ DispFrame

\* save_idempotency_key: the keys loaded, plus this one, are written back.
SaveKey(r) ==
    /\ r \in 1..Len(runs)
    /\ runs[r].pc = "save"
    /\ idem_file' = runs[r].keys_read \cup {runs[r].key}
    /\ runs' = [runs EXCEPT ![r] = [@ EXCEPT !.pc = "ok"]]
    /\ UNCHANGED <<webhook_config, queue_exists, queue_file, pq, calls, disp_op,
                   effects, emitted, forced>>
    /\ DispFrame

\* The end of _send_with_retry after MAX_RETRIES failures: queue_event.
QueueEvent(r) ==
    /\ r \in 1..Len(runs)
    /\ runs[r].pc = "queue"
    /\ queue_file' = Append(queue_file,
           QueueEntry(runs[r].event_type,
                      FullPayload(runs[r].event_type, runs[r].plan_id, runs[r].key)))
    /\ queue_exists' = TRUE
    /\ runs' = [runs EXCEPT ![r] = [@ EXCEPT !.pc = "failed"]]
    /\ UNCHANGED <<webhook_config, idem_file, pq, calls, disp_op, effects, emitted, forced>>
    /\ DispFrame

\* attempted and delivered record the line numbers _send_webhook was called for
\* and returned True for.
PqIdle ==
    [ pc |-> "idle", i |-> 0, remaining |-> <<>>, processed |-> 0, keys_read |-> {},
      attempted |-> {}, delivered |-> {} ]

\* EventDispatcher.process_queue: the call, up to opening the file.
ProcessQueueBegin ==
    /\ MainFree
    /\ calls < MaxDispCalls
    /\ calls' = calls + 1
    /\ IF ~queue_exists
       THEN /\ disp_op' = [op |-> "process_queue", ret |-> 0]
            /\ UNCHANGED pq
       ELSE /\ disp_op' = [op |-> "process_queue_running"]
            /\ pq' = [PqIdle EXCEPT !.pc = "scan", !.i = 1]
    /\ UNCHANGED <<webhook_config, idem_file, queue_exists, queue_file, runs, effects,
                   emitted, forced>>
    /\ DispFrame

\* One pass of `for line in f`: line i is read and, when pending and its event
\* type has a URL, delivered once.
ProcessQueueLine(status) ==
    /\ pq.pc = "scan"
    /\ pq.i <= Len(queue_file)
    /\ LET entry == queue_file[pq.i]
           key == entry.payload.idempotency_key
           pair == <<entry.event_type, entry.payload.payload.plan_id>>
       IN  IF entry.status = "pending" /\ GetWebhookUrl(entry.event_type) # ""
           THEN /\ effects' = IF Is2xx(status) THEN [effects EXCEPT ![pair] = @ + 1]
                              ELSE effects
                /\ IF IsSuccess(status)
                   THEN pq' = IF key # None
                              THEN [pq EXCEPT !.pc = "save", !.keys_read = idem_file,
                                              !.attempted = @ \cup {pq.i},
                                              !.delivered = @ \cup {pq.i}]
                              ELSE [pq EXCEPT !.i = @ + 1, !.processed = @ + 1,
                                              !.attempted = @ \cup {pq.i},
                                              !.delivered = @ \cup {pq.i}]
                   ELSE pq' = [pq EXCEPT !.i = @ + 1, !.remaining = Append(@, entry),
                                         !.attempted = @ \cup {pq.i}]
           ELSE /\ UNCHANGED effects
                /\ pq' = [pq EXCEPT !.i = @ + 1]
    /\ UNCHANGED <<webhook_config, idem_file, queue_exists, queue_file, runs, calls,
                   disp_op, emitted, forced>>
    /\ DispFrame

\* save_idempotency_key inside process_queue's _send_webhook.
ProcessQueueSaveKey ==
    /\ pq.pc = "save"
    /\ idem_file' = pq.keys_read \cup {queue_file[pq.i].payload.idempotency_key}
    /\ pq' = [pq EXCEPT !.pc = "scan", !.i = @ + 1, !.processed = @ + 1]
    /\ UNCHANGED <<webhook_config, queue_exists, queue_file, runs, calls, disp_op,
                   effects, emitted, forced>>
    /\ DispFrame

\* The loop met the end of the file.
ProcessQueueEof ==
    /\ pq.pc = "scan"
    /\ pq.i > Len(queue_file)
    /\ pq' = [pq EXCEPT !.pc = "rewrite"]
    /\ UNCHANGED <<webhook_config, idem_file, queue_exists, queue_file, runs, calls,
                   disp_op, effects, emitted, forced>>
    /\ DispFrame

\* QUEUE_FILE is rewritten with the entries that remain; process_queue returns.
ProcessQueueRewrite ==
    /\ pq.pc = "rewrite"
    /\ queue_file' = pq.remaining
    /\ disp_op' = [op |-> "process_queue", ret |-> pq.processed]
    /\ pq' = PqIdle
    /\ UNCHANGED <<webhook_config, idem_file, queue_exists, runs, calls, effects,
                   emitted, forced>>
    /\ DispFrame

InitDisp ==
    /\ webhook_config = ConfigInput
    /\ idem_file = {}
    /\ queue_exists = FALSE
    /\ queue_file = <<>>
    /\ runs = <<>>
    /\ pq = PqIdle
    /\ calls = 0
    /\ disp_op = NoCall
    /\ effects = [p \in Pairs |-> 0]
    /\ emitted = {}
    /\ forced = FALSE

EmitAny ==
    \E event_type \in EventInputs, plan_id \in PlanIdInputs, force \in BOOLEAN,
       async_mode \in BOOLEAN :
        Emit(event_type, plan_id, force, async_mode)

SendAttemptAny == \E r \in 1..Len(runs), status \in StatusInputs : SendAttempt(r, status)

SaveKeyAny == \E r \in 1..Len(runs) : SaveKey(r)

QueueEventAny == \E r \in 1..Len(runs) : QueueEvent(r)

ProcessQueueLineAny == \E status \in StatusInputs : ProcessQueueLine(status)

NextDisp ==
    \/ EmitAny
    \/ SendAttemptAny
    \/ SaveKeyAny
    \/ QueueEventAny
    \/ ProcessQueueBegin
    \/ ProcessQueueLineAny
    \/ ProcessQueueSaveKey
    \/ ProcessQueueEof
    \/ ProcessQueueRewrite

(***************************************************************************)
(* validate_plan.py                                                        *)
(*                                                                         *)
(* A plan is a record with the key "steps" (or without it); a step is a    *)
(* record with some of the keys id, action, target, hitl_required.  A step *)
(* id and a path are strings, written as the sequence of their characters. *)
(***************************************************************************)
S01 == <<"S", "0", "1">>
S02 == <<"S", "0", "2">>

\* dict.get(key, default)
Get(dict, key, default) == IF key \in DOMAIN dict THEN dict[key] ELSE default

DecimalDigits == {"0", "1", "2", "3", "4", "5", "6", "7", "8", "9"}

\* re.match(r'^S[0-9]{2}$', step_id), for ids without a line break
MatchesStepId(step_id) ==
    /\ Len(step_id) = 3
    /\ step_id[1] = "S"
    /\ step_id[2] \in DecimalDigits
    /\ step_id[3] \in DecimalDigits

\* valid_actions of validate_steps
VALID_ACTIONS ==
    { "read_file", "write_file", "delete_file", "run_command", "docker_compose_up",
      "docker_run_tests", "docker_fetch_logs", "lint_check", "type_check", "snyk_scan",
      "git_commit" }

\* validate_steps: `if step.get('action') in ['write_file', 'delete_file']`
HitlCheckedActions == {"write_file", "delete_file"}

\* The errors validate_steps appends for step number i, in order.
StepErrors(step, i, seen_ids) ==
    LET step_id == Get(step, "id", <<>>)
    IN  (IF MatchesStepId(step_id) THEN <<>>
         ELSE <<[kind |-> "ID invalido", paso |-> i, step_id |-> step_id]>>)
        \o (IF step_id \in seen_ids THEN <<[kind |-> "ID duplicado", step_id |-> step_id]>>
            ELSE <<>>)
        \o (IF "action" \notin DOMAIN step
            THEN <<[kind |-> "falta action", step_id |-> step_id]>>
            ELSE IF step.action \notin VALID_ACTIONS
            THEN <<[kind |-> "accion invalida", step_id |-> step_id, action |-> step.action]>>
            ELSE <<>>)
        \o (IF "target" \notin DOMAIN step
            THEN <<[kind |-> "falta target", step_id |-> step_id]>>
            ELSE <<>>)
        \o (IF Get(step, "action", "None") \in HitlCheckedActions
               /\ ~Get(step, "hitl_required", FALSE)
            THEN <<[kind |-> "requiere hitl_required=true", step_id |-> step_id,
                    action |-> step.action]>>
            ELSE <<>>)

\* The loop of validate_steps from step number i on.
RECURSIVE ValidateStepsFrom(_, _, _)
ValidateStepsFrom(steps, i, seen_ids) ==
    IF i > Len(steps) THEN <<>>
    ELSE StepErrors(steps[i], i, seen_ids)
         \o ValidateStepsFrom(steps, i + 1, seen_ids \cup {Get(steps[i], "id", <<>>)})

\* validate_steps(plan) -> errors
ValidateSteps(p) ==
    LET steps == Get(p, "steps", <<>>)
    IN  IF steps = <<>> THEN <<[kind |-> "El plan debe tener al menos un paso"]>>
        ELSE ValidateStepsFrom(steps, 1, {})

\* validate_dependencies, first loop: the dependencies that name no step.
MissingDependencies(steps) ==
    LET step_ids == {Get(steps[i], "id", <<>>) : i \in 1..Len(steps)}
        OfStep(i) == SelectSeq(Get(steps[i], "depends_on", <<>>), LAMBDA dep : dep \notin step_ids)
        ErrorsOf(i) == [k \in 1..Len(OfStep(i)) |->
                           [kind |-> "dependencia no existe",
                            step_id |-> Get(steps[i], "id", <<>>), dep |-> OfStep(i)[k]]]
        RECURSIVE From(_)
        From(i) == IF i > Len(steps) THEN <<>> ELSE ErrorsOf(i) \o From(i + 1)
    IN  From(1)

\* has_cycle(step_id, visited, rec_stack): the depth-first search along
\* depends_on; `deps` from position k on is what the loop over the dependencies
\* of the step still has to visit.  The result carries the two sets, which the
\* code mutates in place.
RECURSIVE HasCycle(_, _, _, _), HasCycleDeps(_, _, _, _, _)
HasCycle(steps, step_id, visited, rec_stack) ==
    LET idx == {i \in 1..Len(steps) : Get(steps[i], "id", <<>>) = step_id}
        deps == IF idx = {} THEN <<>>
                ELSE Get(steps[CHOOSE i \in idx : \A j \in idx : i <= j], "depends_on", <<>>)
        res == HasCycleDeps(steps, deps, 1, visited \cup {step_id}, rec_stack \cup {step_id})
    IN  IF res.found THEN res
        ELSE [res EXCEPT !.rec_stack = @ \ {step_id}]

HasCycleDeps(steps, deps, k, visited, rec_stack) ==
    IF k > Len(deps)
    THEN [found |-> FALSE, visited |-> visited, rec_stack |-> rec_stack]
    ELSE IF deps[k] \notin visited
    THEN LET sub == HasCycle(steps, deps[k], visited, rec_stack)
         IN  IF sub.found THEN sub
             ELSE HasCycleDeps(steps, deps, k + 1, sub.visited, sub.rec_stack)
    ELSE IF deps[k] \in rec_stack
    THEN [found |-> TRUE, visited |-> visited, rec_stack |-> rec_stack]
    ELSE HasCycleDeps(steps, deps, k + 1, visited, rec_stack)

\* A second loop that searches from the first step only.
CycleErrorsFirstStepOnly(steps, i, visited) ==
    IF i > Len(steps) THEN <<>>
    ELSE LET step_id == Get(steps[i], "id", <<>>)
             res == HasCycle(steps, step_id, visited, {})
         IN  IF res.found
             THEN <<[kind |-> "dependencia circular", step_id |-> step_id]>>
             ELSE <<>>

\* validate_dependencies, second loop: a search is started from every step not
\* visited yet, each with an empty rec_stack.
RECURSIVE CycleErrors(_, _, _)
CycleErrors(steps, i, visited) ==
    IF i > Len(steps) THEN <<>>
    ELSE LET step_id == Get(steps[i], "id", <<>>)
         IN  IF step_id \in visited THEN CycleErrors(steps, i + 1, visited)
             ELSE LET res == HasCycle(steps, step_id, visited, {})
                  IN  (IF res.found
                       THEN <<[kind |-> "dependencia circular", step_id |-> step_id]>>
                       ELSE <<>>)
                      \o CycleErrors(steps, i + 1, res.visited)

\* validate_dependencies(plan) -> errors
ValidateDependencies(p) ==
    LET steps == Get(p, "steps", <<>>)
    IN  MissingDependencies(steps) \o CycleErrors(steps, 1, {})

\* The steps a plan file is made of: a well-formed or a malformed id; no action,
\* an action of each class, or an unknown one; hitl_required absent, true or false.
StepIdInputs == {S01, S02, <<"s", "1">>}

ActionInputs == {"read_file", "write_file", "delete_file", "git_commit", "rm_rf"}

StepInputs ==
    UNION { { [id |-> id, target |-> <<".">>],
              [id |-> id, target |-> <<".">>, hitl_required |-> h] }
            \cup { [id |-> id, action |-> a, target |-> <<".">>] : a \in ActionInputs }
            \cup { [id |-> id, action |-> a, target |-> <<".">>, hitl_required |-> h] :
                      a \in ActionInputs }
            : id \in StepIdInputs, h \in BOOLEAN }

\* All sequences of at most n elements of S.
SeqsUpTo(S, n) == UNION { [1..k -> S] : k \in 0..n }

PlanInputs ==
    {[plan_id |-> "PLAN-A"]}
        \cup { [plan_id |-> "PLAN-A", steps |-> st] : st \in SeqsUpTo(StepInputs, MaxSteps) }

NoPlan == [plan_id |-> "None"]

\* validate_steps has not run.
NotValidated == [validated |-> FALSE]

\* No plan is being validated.
InitPlanIdle == plan = NoPlan /\ val_ret = NotValidated

\* run_validation, the part validate_steps contributes.
Validate ==
    /\ val_ret = NotValidated
    /\ val_ret' = [errors |-> ValidateSteps(plan)]
    /\ UNCHANGED plan
    /\ PlanFrame

\* The plans given to validate_dependencies: three steps with unique ids, each
\* with a depends_on list of at most MaxDeps names drawn from the three ids
\* and from the id of no step.  Every dependency graph over the three steps is
\* among them, so every order of the steps of every graph is.
S03 == <<"S", "0", "3">>

S99 == <<"S", "9", "9">>

DepStepIds == <<S01, S02, S03>>

DepLists == SeqsUpTo({S01, S02, S03, S99}, MaxDeps)

DepPlanInputs ==
    { [plan_id |-> "PLAN-A",
       steps |-> [i \in 1..Len(DepStepIds) |->
                     [id |-> DepStepIds[i], action |-> "read_file", target |-> <<".">>,
                      depends_on |-> deps[i]]]] :
      deps \in [1..Len(DepStepIds) -> DepLists] }

\* run_validation, the part validate_dependencies contributes.
ValidateDeps ==
    /\ val_ret = NotValidated
    /\ val_ret' = [errors |-> ValidateDependencies(plan)]
    /\ UNCHANGED plan
    /\ PlanFrame

(***************************************************************************)
(* hitl_gate.py                                                            *)
(***************************************************************************)
\* check_step_approval: the 24 hours, in seconds
APPROVAL_WINDOW == 86400

HitlPlanIds == {"PLAN-A", "PLAN-B"}

ApprovalKeys == HitlPlanIds \X {S01, S02}

\* plan_approvals.get(step_id) found nothing
NoRecord == [recorded |-> FALSE]

\* Mutant of get_write_steps: the hitl_required flag alone decides.
GetWriteStepsFlagOnly(p) == SelectSeq(Get(p, "steps", <<>>), LAMBDA step : Get(step, "hitl_required", FALSE))

\* get_write_steps(plan)
GetWriteSteps(p) ==
    SelectSeq(Get(p, "steps", <<>>),
              LAMBDA step : Get(step, "hitl_required", FALSE)
                            \/ Get(step, "action", "None") \in {"write_file", "delete_file", "git_commit"})

\* Mutant of check_step_approval: the age of the approval is not looked at.
CheckStepApprovalNoExpiry(plan_id, step_id, appr, t) ==
    LET step_approval == Get(appr, <<plan_id, step_id>>, NoRecord)
    IN  IF step_approval = NoRecord THEN FALSE
        ELSE IF "approved_at" \notin DOMAIN step_approval THEN FALSE
        ELSE Get(step_approval, "approved", FALSE)

\* check_step_approval(plan_id, step_id, approvals) at time t.  A record without
\* approved_at makes datetime.fromisoformat("") raise, which returns False.
CheckStepApproval(plan_id, step_id, appr, t) ==
    LET step_approval == Get(appr, <<plan_id, step_id>>, NoRecord)
    IN  IF step_approval = NoRecord THEN FALSE
        ELSE IF "approved_at" \notin DOMAIN step_approval THEN FALSE
        ELSE IF t - step_approval.approved_at > APPROVAL_WINDOW THEN FALSE
        ELSE Get(step_approval, "approved", FALSE)

\* The record approve_step writes
ApprovedRecord(t) == [approved |-> TRUE, approved_at |-> t, approved_by |-> "human"]

\* The record reject_step writes
RejectedRecord(t) == [approved |-> FALSE, rejected_at |-> t, reason |-> ""]

\* approvals["approvals"][plan_id][step_id] = record; save_approvals(approvals)
WithRecord(appr, plan_id, step_id, record) ==
    [k \in DOMAIN appr \cup {<<plan_id, step_id>>} |->
        IF k = <<plan_id, step_id>> THEN record ELSE appr[k]]

\* The loop of check_all_hitl: all_approved
AllApproved(plan_id, write_steps, appr, t) ==
    \A i \in 1..Len(write_steps) :
        CheckStepApproval(plan_id, Get(write_steps[i], "id", <<>>), appr, t)

\* check_all_hitl(plan_path) -> bool
CheckAllHitlResult(p, appr, t) ==
    LET write_steps == GetWriteSteps(p)
    IN  IF write_steps = <<>> THEN TRUE
        ELSE AllApproved(Get(p, "plan_id", "None"), write_steps, appr, t)

IaIdle == [pc |-> "idle", i |-> 0, snapshot |-> <<>>, by |-> "none"]

\* phases of main, by name, in the order of the list
PhaseNames == <<"Pre-Flight Check", "HITL Gate", "Execution", "Evidence Collection">>

\* No orchestrator run yet.  `started` lists the phases main has called, `results`
\* is main's list of (name, success), `exit_code` holds the argument of sys.exit
\* once main has called it.
OrchIdle == [pc |-> "idle", i |-> 0, processed |-> <<>>,
             started |-> <<>>, results |-> <<>>, exit_code |-> <<>>, interrupted |-> FALSE]

\* main calls phase_func(plan_path) of the phase called `name`.
PhaseCalled(o, name) == [o EXCEPT !.started = Append(@, name)]

\* An exit code that does not look at how many phases have run.
ExitCodeIgnoresLength(results) ==
    IF \A k \in 1..Len(results) : results[k][2] THEN 0 ELSE 1

\* all_passed of main and the exit code main ends with.
ExitCode(results) ==
    IF (\A k \in 1..Len(results) : results[k][2]) /\ Len(results) = Len(PhaseNames)
    THEN 0 ELSE 1

\* The phase returned `success`: main appends it to results, and leaves the loop
\* when the phase failed or was the last one; it then exits.
PhaseReturned(o, name, success) ==
    LET results == Append(o.results, <<name, success>>)
    IN  [o EXCEPT !.results = results,
                  !.exit_code = IF ~success \/ name = PhaseNames[Len(PhaseNames)]
                                THEN <<ExitCode(results)>> ELSE @]

NoHitlCall == [op |-> "none"]

HitlCallAllowed == hitl_calls < MaxHitlCalls

\* datetime.now() moves on: by a second, or by the length of the approval window.
Tick(d) ==
    /\ ticks < MaxTicks
    /\ ticks' = ticks + 1
    /\ now' = now + d
    /\ UNCHANGED <<approvals, hitl_calls, hitl_op, ia, orch>>
    /\ HitlFrame

\* approve_step(plan_id, step_id)
ApproveStep(plan_id, step_id) ==
    /\ HitlCallAllowed /\ ia.pc = "idle"
    /\ hitl_calls' = hitl_calls + 1
    /\ approvals' = WithRecord(approvals, plan_id, step_id, ApprovedRecord(now))
    /\ hitl_op' = [op |-> "approve_step", plan_id |-> plan_id, step_id |-> step_id]
    /\ UNCHANGED <<now, ticks, ia, orch>>
    /\ HitlFrame

\* reject_step(plan_id, step_id)
RejectStep(plan_id, step_id) ==
    /\ HitlCallAllowed /\ ia.pc = "idle"
    /\ hitl_calls' = hitl_calls + 1
    /\ approvals' = WithRecord(approvals, plan_id, step_id, RejectedRecord(now))
    /\ hitl_op' = [op |-> "reject_step", plan_id |-> plan_id, step_id |-> step_id]
    /\ UNCHANGED <<now, ticks, ia, orch>>
    /\ HitlFrame

\* The callers that run approve_step or reject_step at the same time.
ApprovalWriters == {1, 2}

DeciderIdle == [pc |-> "idle", recorded |-> {}]

\* approve_step(plan_id, step_id) or reject_step(plan_id, step_id) up to the
\* return of load_approvals().  `recorded` keeps the keys the caller has
\* recorded a decision for.
DecideLoad(w, approved, plan_id, step_id) ==
    /\ HitlCallAllowed
    /\ approval_writers[w].pc = "idle"
    /\ hitl_calls' = hitl_calls + 1
    /\ approval_writers' = [approval_writers EXCEPT ![w] =
           [pc |-> "save", recorded |-> @.recorded, approved |-> approved,
            plan_id |-> plan_id, step_id |-> step_id, loaded |-> approvals]]
    /\ UNCHANGED <<approvals, now, ticks, hitl_op, ia, orch>>
    /\ UNCHANGED <<log_writers, tq_workers, bbVars>>
    /\ HitlFrameOthers

\* The rest of the call: the record is put into the dict that was loaded and
\* save_approvals writes the dict over the file.
DecideSave(w) ==
    /\ approval_writers[w].pc = "save"
    /\ LET me == approval_writers[w]
           record == IF me.approved THEN ApprovedRecord(now) ELSE RejectedRecord(now)
       IN  /\ approvals' = WithRecord(me.loaded, me.plan_id, me.step_id, record)
           /\ hitl_op' = [op |-> IF me.approved THEN "approve_step" ELSE "reject_step",
                          plan_id |-> me.plan_id, step_id |-> me.step_id]
           /\ approval_writers' = [approval_writers EXCEPT ![w] =
                  [pc |-> "idle",
                   recorded |-> me.recorded \cup {<<me.plan_id, me.step_id>>}]]
    /\ UNCHANGED <<now, ticks, hitl_calls, ia, orch>>
    /\ UNCHANGED <<log_writers, tq_workers, bbVars>>
    /\ HitlFrameOthers

\* hitl_gate.py <plan> --check
CheckAllHitl ==
    /\ HitlCallAllowed /\ ia.pc = "idle"
    /\ hitl_calls' = hitl_calls + 1
    /\ hitl_op' = [ op |-> "check_all_hitl", call |-> hitl_calls + 1,
                    ret |-> CheckAllHitlResult(plan, approvals, now) ]
    /\ UNCHANGED <<approvals, now, ticks, ia, orch>>
    /\ HitlFrame

\* hitl_gate.py <plan> --interactive: interactive_approval up to its loop; the
\* approvals are loaded once, here.
InteractiveBegin ==
    /\ HitlCallAllowed /\ ia.pc = "idle"
    /\ hitl_calls' = hitl_calls + 1
    /\ ia' = [pc |-> "loop", i |-> 1, snapshot |-> approvals, by |-> "cli"]
    /\ UNCHANGED <<approvals, now, ticks, hitl_op, orch>>
    /\ HitlFrame

\* What the orchestrator does when `hitl_gate.py --interactive` has exited:
\* phase_hitl returns returncode == 0 and main goes on or stops.
AfterInteractive(ret) ==
    IF ia.by = "orch"
    THEN orch' = IF ret
                 THEN [PhaseCalled(PhaseReturned(orch, PhaseNames[2], TRUE), PhaseNames[3])
                          EXCEPT !.pc = "execute", !.i = 1]
                 ELSE [PhaseReturned(orch, PhaseNames[2], FALSE)
                          EXCEPT !.pc = "stopped", !.i = 1]
    ELSE UNCHANGED orch

\* One pass of the loop of interactive_approval: the step is skipped when the
\* approvals loaded at the start hold a valid approval; otherwise the operator
\* answers, and approve_step or reject_step records the answer.
InteractiveStep(approved) ==
    /\ ia.pc = "loop"
    /\ ia.i <= Len(GetWriteSteps(plan))
    /\ LET plan_id == Get(plan, "plan_id", "None")
           step_id == Get(GetWriteSteps(plan)[ia.i], "id", <<>>)
       IN  IF CheckStepApproval(plan_id, step_id, ia.snapshot, now)
           THEN /\ ia' = [ia EXCEPT !.i = @ + 1]
                /\ UNCHANGED <<approvals, hitl_op, orch>>
           ELSE IF approved
           THEN /\ approvals' = WithRecord(approvals, plan_id, step_id, ApprovedRecord(now))
                /\ ia' = [ia EXCEPT !.i = @ + 1]
                /\ UNCHANGED <<hitl_op, orch>>
           ELSE /\ approvals' = WithRecord(approvals, plan_id, step_id, RejectedRecord(now))
                /\ ia' = IaIdle
                /\ hitl_op' = [op |-> "interactive_approval", ret |-> FALSE]
                /\ AfterInteractive(FALSE)
    /\ UNCHANGED <<now, ticks, hitl_calls>>
    /\ HitlFrame

\* The loop of interactive_approval is over: it returns True.
InteractiveEnd ==
    /\ ia.pc = "loop"
    /\ ia.i > Len(GetWriteSteps(plan))
    /\ ia' = IaIdle
    /\ hitl_op' = [op |-> "interactive_approval", ret |-> TRUE]
    /\ AfterInteractive(TRUE)
    /\ UNCHANGED <<approvals, now, ticks, hitl_calls>>
    /\ HitlFrame

\* The plan files the gate is run on: no steps; no gateable step; a flagged write
\* beside a read; a flagged read beside an unflagged commit; two flagged writes.
HitlPlanInputs ==
    { [plan_id |-> "PLAN-A"],
      [plan_id |-> "PLAN-A", steps |-> <<[id |-> S01, action |-> "read_file", target |-> <<".">>,
                                          hitl_required |-> FALSE]>>],
      [plan_id |-> "PLAN-A", steps |-> <<[id |-> S01, action |-> "write_file", target |-> <<".">>,
                                          hitl_required |-> TRUE],
                                         [id |-> S02, action |-> "read_file", target |-> <<".">>]>>],
      [plan_id |-> "PLAN-A", steps |-> <<[id |-> S01, action |-> "read_file", target |-> <<".">>,
                                          hitl_required |-> TRUE],
                                         [id |-> S02, action |-> "git_commit", target |-> <<".">>]>>],
      [plan_id |-> "PLAN-A", steps |-> <<[id |-> S01, action |-> "write_file", target |-> <<".">>,
                                          hitl_required |-> TRUE],
                                         [id |-> S02, action |-> "delete_file", target |-> <<".">>,
                                          hitl_required |-> TRUE]>>] }

\* No approval file, no gate call made.
InitHitlIdle ==
    /\ approvals = <<>>
    /\ now = 0
    /\ ticks = 0
    /\ hitl_calls = 0
    /\ hitl_op = NoHitlCall
    /\ ia = IaIdle
    /\ orch = OrchIdle

TickAny == \E d \in {1, APPROVAL_WINDOW} : Tick(d)

ApproveStepAny == \E plan_id \in HitlPlanIds, step_id \in {S01, S02} : ApproveStep(plan_id, step_id)

RejectStepAny == \E plan_id \in HitlPlanIds, step_id \in {S01, S02} : RejectStep(plan_id, step_id)

InteractiveStepAny == \E approved \in BOOLEAN : InteractiveStep(approved)

NextHitl ==
    \/ TickAny
    \/ ApproveStepAny
    \/ RejectStepAny
    \/ CheckAllHitl
    \/ InteractiveBegin
    \/ InteractiveStepAny
    \/ InteractiveEnd

(***************************************************************************)
(* plan_generator.py: validate_semantic_existence                          *)
(*                                                                         *)
(* A path is the sequence of its characters.  The file system is the set   *)
(* of files it holds; a file is the sequence of the components of its path *)
(* from the working directory (".." first for a file of the parent).       *)
(***************************************************************************)
\* path.replace('\\', '/')
ReplaceBackslash(path) == [i \in 1..Len(path) |-> IF path[i] = "\\" THEN "/" ELSE path[i]]

\* str.lstrip('./'): every leading character that is a '.' or a '/' is removed.
RECURSIVE LStripDotSlash(_)
LStripDotSlash(path) ==
    IF path # <<>> /\ path[1] \in {".", "/"} THEN LStripDotSlash(Tail(path)) ELSE path

\* normalized = path.replace('\\', '/').lstrip('./')
Normalized(path) == LStripDotSlash(ReplaceBackslash(path))

\* The components of a path: path.split('/')
RECURSIVE SplitPath(_, _, _)
SplitPath(path, i, cur) ==
    IF i > Len(path) THEN <<cur>>
    ELSE IF path[i] = "/" THEN <<cur>> \o SplitPath(path, i + 1, <<>>)
    ELSE SplitPath(path, i + 1, Append(cur, path[i]))

\* How the operating system resolves the components from the working
\* directory: "" and "." stay, ".." goes up.
RECURSIVE Resolve(_, _, _)
Resolve(comps, i, stack) ==
    IF i > Len(comps) THEN stack
    ELSE IF comps[i] \in {<<>>, <<".">>} THEN Resolve(comps, i + 1, stack)
    ELSE IF comps[i] = <<".", ".">> /\ stack # <<>> /\ stack[Len(stack)] # <<".", ".">>
    THEN Resolve(comps, i + 1, SubSeq(stack, 1, Len(stack) - 1))
    ELSE Resolve(comps, i + 1, Append(stack, comps[i]))

\* os.path.exists(path): the working directory and its parent exist; so does a
\* file of fs_files.
OsPathExists(path, files) ==
    /\ path # <<>>
    /\ LET where == Resolve(SplitPath(path, 1, <<>>), 1, <<>>)
       IN  where \in {<<>>, << <<".", ".">> >>} \cup files

\* os.path.join of the components
RECURSIVE JoinPath(_)
JoinPath(comps) ==
    IF comps = <<>> THEN <<>>
    ELSE IF Len(comps) = 1 THEN comps[1]
    ELSE comps[1] \o <<"/">> \o JoinPath(Tail(comps))

\* get_existing_files(): os.walk('.') finds the files below the working directory
GetExistingFiles(files) == { JoinPath(f) : f \in { g \in files : g[1] # <<".", ".">> } }

\* One test of validate_semantic_existence: the path is reported
Hallucinated(path, all_known, files) ==
    LET normalized == Normalized(path)
    IN  /\ normalized # <<>>
        /\ normalized # <<".">>
        /\ normalized \notin all_known
        /\ ~OsPathExists(path, files)

\* The entries of `paths` that are reported, each tagged with `label`
RECURSIVE HallucinatedPaths(_, _, _, _)
HallucinatedPaths(paths, label, all_known, files) ==
    IF paths = <<>> THEN <<>>
    ELSE (IF Hallucinated(paths[1], all_known, files)
          THEN <<[in |-> label, path |-> paths[1]]>> ELSE <<>>)
         \o HallucinatedPaths(Tail(paths), label, all_known, files)

\* The loop over plan['steps']
RECURSIVE HallucinatedTargets(_, _, _)
HallucinatedTargets(steps, all_known, files) ==
    IF steps = <<>> THEN <<>>
    ELSE LET target == Get(steps[1], "target", <<>>)
             action == Get(steps[1], "action", "")
         IN  (IF /\ action \in {"read_file", "write_file", "delete_file"}
                 /\ Hallucinated(target, all_known, files)
                 /\ action # "write_file"
              THEN <<[in |-> "step", step_id |-> Get(steps[1], "id", <<>>), path |-> target]>>
              ELSE <<>>)
             \o HallucinatedTargets(Tail(steps), all_known, files)

\* validate_semantic_existence(plan) -> (passed, hallucinated)
ValidateSemanticExistence(p, files, index) ==
    LET all_known == GetExistingFiles(files) \cup index
        hallucinated ==
            HallucinatedPaths(Get(Get(p, "objective", <<>>), "affected_files", <<>>),
                              "affected_files", all_known, files)
            \o HallucinatedTargets(Get(p, "steps", <<>>), all_known, files)
            \o HallucinatedPaths(Get(Get(p, "evidence", <<>>), "analyzed_paths", <<>>),
                                 "evidence", all_known, files)
    IN  [passed |-> hallucinated = <<>>, hallucinated |-> hallucinated]

\* The files there may be: a, the dot file .a, and a in the parent directory.
FileA == << <<"a">> >>
FileDotA == << <<".", "a">> >>
FileParentA == << <<".", ".">>, <<"a">> >>

\* The paths a plan names.
PathInputs ==
    { <<"a">>, <<".", "/", "a">>, <<".", "a">>, <<".", ".", "/", "a">>, <<"g">>, <<".">> }

\* The index lists nothing, or a file g that is not on disk.
IndexInputs == { {}, {<<"g">>} }

SemanticStepInputs ==
    { [id |-> S01, action |-> a, target |-> t] :
        a \in {"read_file", "write_file", "delete_file", "run_command"}, t \in PathInputs }

SemanticPlanInputs ==
    { [ plan_id |-> "PLAN-A",
        objective |-> [affected_files |-> af],
        steps |-> st,
        evidence |-> [analyzed_paths |-> ap] ] :
        af \in SeqsUpTo(PathInputs, MaxPaths),
        st \in SeqsUpTo(SemanticStepInputs, MaxPaths),
        ap \in SeqsUpTo(PathInputs, MaxPaths) }

NotChecked == [checked |-> FALSE]

GenIdle == [pc |-> "idle"]

\* The generator is not running; nothing is on disk.
InitGenIdle ==
    /\ fs_files = {} /\ indexed = {} /\ sem_ret = NotChecked
    /\ gen = GenIdle /\ plans_dir = <<>> /\ fs_changes = 0

\* validate_semantic_existence(plan)
SemanticCheck ==
    /\ sem_ret = NotChecked
    /\ sem_ret' = ValidateSemanticExistence(plan, fs_files, indexed)
    /\ UNCHANGED <<plan, val_ret, fs_files, indexed, gen, plans_dir, fs_changes>>
    /\ GenFrame

(***************************************************************************)
(* plan_generator.py: generate_plan_with_self_correction                   *)
(***************************************************************************)
\* MAX_RETRIES of plan_generator.py
GEN_MAX_RETRIES == 3

\* generate_plan_id(): "PLAN-" and eight characters of A-Z0-9; the identifier is
\* an opaque token here.
GeneratePlanId == "PLAN-7K2Q9ZD4"

\* re.match(r'^PLAN-[A-Z0-9]{8}$', plan_id) on such tokens
MatchesPlanId(plan_id) == plan_id = GeneratePlanId

\* A filter that keeps every path.
FilterPathsKeepsAll(paths, files, walked) == paths

\* [f for f in paths if keep(f)]
FilterPaths(paths, files, walked) ==
    SelectSeq(paths, LAMBDA f : OsPathExists(f, files) \/ f \in walked)

\* create_plan_template(objective, affected_files); the keys no validator and no
\* repair reads (description, verification, commit_proposal, ...) are left out.
CreatePlanTemplate(affected_files, files) ==
    LET existing_files == FilterPaths(affected_files, files, {})
    IN  [ plan_id |-> GeneratePlanId,
          objective |-> [affected_files |-> existing_files],
          steps |-> << [ id |-> S01, action |-> "read_file",
                         target |-> IF existing_files # <<>> THEN existing_files[1] ELSE <<".">>,
                         hitl_required |-> FALSE ],
                       [ id |-> S02, action |-> "lint_check", target |-> <<".">>,
                         depends_on |-> <<S01>>, hitl_required |-> FALSE ] >>,
          evidence |-> [analyzed_paths |-> existing_files] ]

\* validate_plan.py on the plan: of run_validation, validate_plan_id and
\* validate_steps; the other validators read keys that create_plan_template sets
\* and fix_plan leaves alone.
StructuralErrors(p) ==
    (IF MatchesPlanId(Get(p, "plan_id", "")) THEN <<>> ELSE <<[kind |-> "plan_id invalido"]>>)
    \o ValidateSteps(p)

\* analyze_validation_errors(output): the error types whose pattern the output has
AnalyzeValidationErrors(errors) ==
    LET kinds == {errors[i].kind : i \in 1..Len(errors)}
    IN  (IF "plan_id invalido" \in kinds THEN {"plan_id"} ELSE {})
        \cup (IF "ID invalido" \in kinds THEN {"step_id"} ELSE {})
        \cup (IF "falta action" \in kinds THEN {"missing_action"} ELSE {})
        \cup (IF "accion invalida" \in kinds THEN {"invalid_action"} ELSE {})
        \cup (IF "falta target" \in kinds THEN {"missing_target"} ELSE {})
        \cup (IF "requiere hitl_required=true" \in kinds THEN {"hitl_required"} ELSE {})

\* f"S{(i+1):02d}" for the step numbers of the model
StepIdOf(i) == <<"S", "0", Digit(i)>>

\* dict with dict[key] = value
With(dict, key, value) ==
    [k \in DOMAIN dict \cup {key} |-> IF k = key THEN value ELSE dict[k]]

\* fix_plan: the repairs made to step number i
FixStep(step, i, errors, hallucinated, files) ==
    LET s1 == IF "step_id" \in errors THEN With(step, "id", StepIdOf(i)) ELSE step
        s2 == IF "missing_action" \in errors /\ "action" \notin DOMAIN s1
              THEN With(s1, "action", "read_file") ELSE s1
        s3 == IF Get(s2, "action", "None") \notin VALID_ACTIONS
              THEN With(s2, "action", "read_file") ELSE s2
        s4 == IF "missing_target" \in errors /\ "target" \notin DOMAIN s3
              THEN With(s3, "target", <<".">>) ELSE s3
        s5 == IF "hitl_required" \in errors
                 /\ Get(s4, "action", "None") \in {"write_file", "delete_file", "git_commit"}
              THEN With(s4, "hitl_required", TRUE) ELSE s4
    IN  IF /\ hallucinated # <<>>
           /\ Get(s5, "action", "None") = "read_file"
           /\ ~OsPathExists(Get(s5, "target", <<>>), files)
           /\ Get(s5, "target", <<>>) # <<".">>
        THEN With(s5, "target", <<".">>) ELSE s5

\* fix_plan(plan, errors, hallucinated)
FixPlan(p, errors, hallucinated, files) ==
    LET walked == GetExistingFiles(files)
    IN  [ plan_id |-> IF "plan_id" \in errors \/ ~MatchesPlanId(Get(p, "plan_id", ""))
                      THEN GeneratePlanId ELSE p.plan_id,
          objective |-> [affected_files |->
              IF hallucinated # <<>>
              THEN FilterPaths(p.objective.affected_files, files, walked)
              ELSE p.objective.affected_files],
          steps |-> [i \in 1..Len(p.steps) |-> FixStep(p.steps[i], i, errors, hallucinated, files)],
          evidence |-> [analyzed_paths |->
              IF hallucinated # <<>>
              THEN FilterPaths(p.evidence.analyzed_paths, files, walked)
              ELSE p.evidence.analyzed_paths] ]

\* fix_plan has run after a failed validate_semantic_existence; the validator
\* has not run on the repaired plan yet.
Repaired == [checked |-> FALSE, repaired |-> TRUE]

\* The semantic branch of the loop of generate_plan_with_self_correction: the
\* validator reported `hallucinated`, and fix_plan(plan, ["hallucination"],
\* hallucinated) makes the plan of the next attempt.
Repair ==
    /\ sem_ret # NotChecked
    /\ "repaired" \notin DOMAIN sem_ret
    /\ ~sem_ret.passed
    /\ plan' = FixPlan(plan, {"hallucination"}, sem_ret.hallucinated, fs_files)
    /\ sem_ret' = Repaired
    /\ UNCHANGED <<val_ret, fs_files, indexed, gen, plans_dir, fs_changes>>
    /\ GenFrame

\* validate_semantic_existence(plan) of the next attempt, on the repaired plan.
SemanticRecheck ==
    /\ sem_ret = Repaired
    /\ LET result == ValidateSemanticExistence(plan, fs_files, indexed)
       IN  sem_ret' = [passed |-> result.passed, hallucinated |-> result.hallucinated,
                       repaired |-> TRUE]
    /\ UNCHANGED <<plan, val_ret, fs_files, indexed, gen, plans_dir, fs_changes>>
    /\ GenFrame

\* os.remove(plans/<name>)
RemoveFile(dir, name) == [k \in DOMAIN dir \ {name} |-> dir[k]]

TempName(attempt_num) == <<"_temp_plan_", attempt_num>>

\* generate_plan_with_self_correction(objective, affected_files) up to the loop
GenStart(affected_files) ==
    /\ gen.pc = "idle"
    /\ gen' = [ pc |-> "loop", attempt |-> 0,
                plan |-> CreatePlanTemplate(affected_files, fs_files),
                struct_passed |-> <<>>, semantic_passed |-> <<>>,
                affected_files |-> affected_files, files_at_call |-> fs_files ]
    /\ UNCHANGED <<plan, val_ret, fs_files, indexed, sem_ret, plans_dir, fs_changes>>
    /\ GenFrame

\* The head of the loop and PASO 1: the plan is written to the scratch file and
\* validate_plan.py is run on it (env_ok: the subprocess could run).  When it
\* fails, fix_plan repairs the plan and the next attempt starts.
GenStructural(env_ok) ==
    /\ gen.pc = "loop"
    /\ gen.attempt < GEN_MAX_RETRIES
    /\ LET attempt_num == gen.attempt + 1
           errors == StructuralErrors(gen.plan)
       IN  IF env_ok /\ errors = <<>>
           THEN /\ gen' = [gen EXCEPT !.pc = "semantic",
                                      !.struct_passed = <<attempt_num, gen.plan>>]
                /\ plans_dir' = With(plans_dir, TempName(attempt_num), gen.plan)
           ELSE /\ gen' = [gen EXCEPT
                              !.attempt = attempt_num,
                              !.plan = FixPlan(gen.plan,
                                           IF env_ok THEN AnalyzeValidationErrors(errors) ELSE {},
                                           <<>>, fs_files)]
                /\ plans_dir' = RemoveFile(plans_dir, TempName(attempt_num))
    /\ UNCHANGED <<plan, val_ret, fs_files, indexed, sem_ret, fs_changes>>
    /\ GenFrame

\* PASO 2 and the rest of the pass: validate_semantic_existence; when it fails,
\* fix_plan strips the plan and the next attempt starts; when it passes, the plan
\* is written to plans/<plan_id>.json and the function returns True.
GenSemantic ==
    /\ gen.pc = "semantic"
    /\ LET attempt_num == gen.attempt + 1
           result == ValidateSemanticExistence(gen.plan, fs_files, indexed)
       IN  IF result.passed
           THEN /\ gen' = [gen EXCEPT !.pc = "done",
                                      !.semantic_passed = <<attempt_num, gen.plan>>]
                /\ plans_dir' = RemoveFile(
                       With(plans_dir, <<"final", gen.plan.plan_id>>, gen.plan),
                       TempName(attempt_num))
           ELSE /\ gen' = [gen EXCEPT
                              !.pc = "loop",
                              !.attempt = attempt_num,
                              !.plan = FixPlan(gen.plan, {"hallucination"},
                                               result.hallucinated, fs_files)]
                /\ plans_dir' = RemoveFile(plans_dir, TempName(attempt_num))
    /\ UNCHANGED <<plan, val_ret, fs_files, indexed, sem_ret, fs_changes>>
    /\ GenFrame

\* The function giving up without writing the plan it ends with.
GenFailedDiscards ==
    /\ gen.pc = "loop"
    /\ gen.attempt = GEN_MAX_RETRIES
    /\ gen' = [gen EXCEPT !.pc = "failed"]
    /\ UNCHANGED <<plan, val_ret, fs_files, indexed, sem_ret, plans_dir, fs_changes>>
    /\ GenFrame

\* The loop written to make one pass too many before it gives up.
GenFailedAfterFour ==
    /\ gen.pc = "loop"
    /\ gen.attempt = GEN_MAX_RETRIES + 1
    /\ gen' = [gen EXCEPT !.pc = "failed"]
    /\ plans_dir' = With(plans_dir, <<"_FAILED_", gen.plan.plan_id>>, gen.plan)
    /\ UNCHANGED <<plan, val_ret, fs_files, indexed, sem_ret, fs_changes>>
    /\ GenFrame

\* All attempts failed: the plan is written to plans/_FAILED_<plan_id>.json.
GenFailed ==
    /\ gen.pc = "loop"
    /\ gen.attempt = GEN_MAX_RETRIES
    /\ gen' = [gen EXCEPT !.pc = "failed"]
    /\ plans_dir' = With(plans_dir, <<"_FAILED_", gen.plan.plan_id>>, gen.plan)
    /\ UNCHANGED <<plan, val_ret, fs_files, indexed, sem_ret, fs_changes>>
    /\ GenFrame

\* Another program removes a file while the generator runs.
RemoveProjectFile(f) ==
    /\ gen.pc \in {"loop", "semantic"}
    /\ fs_changes < MaxFsChanges
    /\ f \in fs_files
    /\ fs_files' = fs_files \ {f}
    /\ fs_changes' = fs_changes + 1
    /\ UNCHANGED <<plan, val_ret, indexed, sem_ret, gen, plans_dir>>
    /\ GenFrame

\* --files of the command line
AffectedFilesInputs == SeqsUpTo(PathInputs, MaxPaths)

NextGenerate ==
    \/ \E affected_files \in AffectedFilesInputs : GenStart(affected_files)
    \/ \E env_ok \in BOOLEAN : GenStructural(env_ok)
    \/ GenSemantic
    \/ GenFailed
    \/ \E f \in fs_files : RemoveProjectFile(f)

\* Nobody is inside a call that others may run beside.
NoCallers == <<>>

InitConcurrentIdle ==
    /\ log_writers = NoCallers
    /\ approval_writers = NoCallers
    /\ tq_workers = NoCallers

\* logs/current_state.json does not exist.
NoStateFile == [exists |-> FALSE]

\* No state file, no history, the lock free, no thread in a Blackboard call.
InitBlackboardIdle ==
    /\ bb_state = NoStateFile
    /\ bb_history = <<>>
    /\ bb_lock = 0
    /\ bb_threads = NoCallers

(***************************************************************************)
(* task_queue.py                                                           *)
(*   The queue is four directories of TASK-<id>.json files.  A task is the *)
(*   dict in its file; description and metadata are left out.  The ids     *)
(*   _generate_id draws are taken to be distinct and are numbered in the   *)
(*   order drawn.  created_tick is a history field: the clock reading      *)
(*   behind created_at.                                                    *)
(***************************************************************************)
\* priority: int = 5 of TaskQueue.add and t.get("priority", 5) of get_next
DEFAULT_PRIORITY == 5

NoTasks == <<>>

EmptyQueue ==
    [pending |-> NoTasks, in_progress |-> NoTasks, completed |-> NoTasks, failed |-> NoTasks]

NoTaskCall == [op |-> "none"]

\* The ":SS[.ffffff]" end of datetime.isoformat() at half second t: the
\* fraction is printed only when it is not zero.
IsoFormat(t) ==
    LET sec == t \div 2
    IN  <<Digit(sec \div 10), Digit(sec % 10)>>
            \o (IF t % 2 = 0 THEN <<>> ELSE <<46, Digit(5), 48, 48, 48, 48, 48>>)

\* Empty queue directories, no call made; the clock shows 00:00:09.5.
InitTaskQueueIdle ==
    /\ tq_files = EmptyQueue
    /\ tq_now = 19
    /\ tq_calls = 0
    /\ tq_op = NoTaskCall

\* The clock of the queue advances by half a second.
TqTick ==
    /\ tq_now < 19 + MaxTqTicks
    /\ tq_now' = tq_now + 1
    /\ UNCHANGED <<tq_files, tq_calls, tq_op>>
    /\ TqFrame

\* dict.pop(key, None) for each of the keys
Without(dict, keys) == [k \in DOMAIN dict \ keys |-> dict[k]]

\* A move that unlinks the old file and writes no new one.
MoveTaskDropsTask(files, task, from, to) ==
    [files EXCEPT ![from] = Without(@, {task.id})]

\* A move that writes the new file and leaves the old one behind.
MoveTaskKeepsSource(files, task, from, to) ==
    [files EXCEPT ![to] = With(@, task.id, task)]

\* The write of a task file into the directory `to` and the unlink of the file
\* in the directory `from`.
MoveTask(files, task, from, to) ==
    [files EXCEPT ![to] = With(@, task.id, task),
                  ![from] = Without(@, {task.id})]

\* All task ids in the four directories.
TaskIds(files) ==
    DOMAIN files.pending \cup DOMAIN files.in_progress
        \cup DOMAIN files.completed \cup DOMAIN files.failed

\* TaskQueue.add(description, metadata, priority)
Add(task_id, priority) ==
    /\ tq_calls < MaxTqCalls
    /\ task_id \notin TaskIds(tq_files)
    /\ LET task == [ id |-> task_id, priority |-> priority, status |-> "pending",
                     created_at |-> IsoFormat(tq_now), updated_at |-> IsoFormat(tq_now),
                     created_tick |-> tq_now ]
       IN  /\ tq_files' = [tq_files EXCEPT !.pending = With(@, task_id, task)]
           /\ tq_op' = [op |-> "add", ret |-> <<task_id>>]
    /\ tq_calls' = tq_calls + 1
    /\ UNCHANGED tq_now
    /\ TqFrame

\* A sort key that looks at the creation time only.
SortKeyLessIgnoresPriority(a, b) ==
    LexLess(Get(a, "created_at", <<>>), Get(b, "created_at", <<>>))

\* key(a) < key(b) for the key (t.get("priority", 5), t.get("created_at", ""))
\* of tasks.sort
SortKeyLess(a, b) ==
    \/ Get(a, "priority", DEFAULT_PRIORITY) < Get(b, "priority", DEFAULT_PRIORITY)
    \/ /\ Get(a, "priority", DEFAULT_PRIORITY) = Get(b, "priority", DEFAULT_PRIORITY)
       /\ LexLess(Get(a, "created_at", <<>>), Get(b, "created_at", <<>>))

\* The tasks that tasks.sort may put first: the sort is stable and the glob
\* lists the files in no particular order, so any task with a least key.
FirstSorted(tasks) ==
    {i \in DOMAIN tasks : \A j \in DOMAIN tasks : ~SortKeyLess(tasks[j], tasks[i])}

\* TaskQueue.get_next()
GetNext ==
    /\ tq_calls < MaxTqCalls
    /\ IF DOMAIN tq_files.pending = {}
       THEN /\ tq_op' = [op |-> "get_next", ret |-> <<>>]
            /\ UNCHANGED tq_files
       ELSE \E i \in FirstSorted(tq_files.pending) :
              LET task == With(With(With(tq_files.pending[i],
                                    "status", "in_progress"),
                                    "started_at", IsoFormat(tq_now)),
                                    "updated_at", IsoFormat(tq_now))
              IN  /\ tq_files' = MoveTask(tq_files, task, "pending", "in_progress")
                  /\ tq_op' = [op |-> "get_next", ret |-> <<task>>]
    /\ tq_calls' = tq_calls + 1
    /\ UNCHANGED tq_now
    /\ TqFrame

\* TaskQueue.complete(task_id, result)
Complete(task_id) ==
    /\ tq_calls < MaxTqCalls
    /\ IF task_id \notin DOMAIN tq_files.in_progress
       THEN /\ tq_op' = [op |-> "complete", task_id |-> task_id, ret |-> <<FALSE>>]
            /\ UNCHANGED tq_files
       ELSE LET task == With(With(With(With(tq_files.in_progress[task_id],
                                    "status", "completed"),
                                    "completed_at", IsoFormat(tq_now)),
                                    "updated_at", IsoFormat(tq_now)),
                                    "result", <<>>)
            IN  /\ tq_files' = MoveTask(tq_files, task, "in_progress", "completed")
                /\ tq_op' = [op |-> "complete", task_id |-> task_id, ret |-> <<TRUE>>]
    /\ tq_calls' = tq_calls + 1
    /\ UNCHANGED tq_now
    /\ TqFrame

\* TaskQueue.fail(task_id, error)
Fail(task_id) ==
    /\ tq_calls < MaxTqCalls
    /\ IF task_id \notin DOMAIN tq_files.in_progress
       THEN /\ tq_op' = [op |-> "fail", task_id |-> task_id, ret |-> <<FALSE>>]
            /\ UNCHANGED tq_files
       ELSE LET task == With(With(With(With(tq_files.in_progress[task_id],
                                    "status", "failed"),
                                    "failed_at", IsoFormat(tq_now)),
                                    "updated_at", IsoFormat(tq_now)),
                                    "error", "error")
            IN  /\ tq_files' = MoveTask(tq_files, task, "in_progress", "failed")
                /\ tq_op' = [op |-> "fail", task_id |-> task_id, ret |-> <<TRUE>>]
    /\ tq_calls' = tq_calls + 1
    /\ UNCHANGED tq_now
    /\ TqFrame

\* TaskQueue.retry(task_id)
Retry(task_id) ==
    /\ tq_calls < MaxTqCalls
    /\ IF task_id \notin DOMAIN tq_files.failed
       THEN /\ tq_op' = [op |-> "retry", task_id |-> task_id, ret |-> <<FALSE>>]
            /\ UNCHANGED tq_files
       ELSE LET failed == tq_files.failed[task_id]
                task == Without(With(With(With(failed,
                                    "status", "pending"),
                                    "updated_at", IsoFormat(tq_now)),
                                    "retry_count", Get(failed, "retry_count", 0) + 1),
                                {"failed_at", "error"})
            IN  /\ tq_files' = MoveTask(tq_files, task, "failed", "pending")
                /\ tq_op' = [op |-> "retry", task_id |-> task_id, ret |-> <<TRUE>>]
    /\ tq_calls' = tq_calls + 1
    /\ UNCHANGED tq_now
    /\ TqFrame

\* _generate_id(): the id of the n-th task.
GenerateId(n) == <<"TASK", n>>

\* The ids TaskQueue is called with: those of the tasks there are, and one of
\* no task.  The priorities tasks are added with.
TaskIdInputs == {GenerateId(n) : n \in 1..(Cardinality(TaskIds(tq_files)) + 1)}

PriorityInputs == {1, DEFAULT_PRIORITY}

NextTaskQueue ==
    \/ TqTick
    \/ \E priority \in PriorityInputs :
           Add(GenerateId(Cardinality(TaskIds(tq_files)) + 1), priority)
    \/ GetNext
    \/ \E task_id \in TaskIdInputs : Complete(task_id)
    \/ \E task_id \in TaskIdInputs : Fail(task_id)
    \/ \E task_id \in TaskIdInputs : Retry(task_id)

\* TaskQueue.get_next called by two workers (threads or processes) at a time,
\* one file operation per step.  files: what the glob listed; tasks: the
\* files loaded so far; task: the task being moved; got: the ids of the
\* tasks get_next has returned to the worker.
TqWorkers == {1, 2}

WorkerIdle == [pc |-> "idle", files |-> {}, tasks |-> NoTasks, task |-> NoTasks, got |-> {}]

WorkerFrame ==
    UNCHANGED <<auditVars, dispVars, planVars, hitlVars, genVars, recVars, bbVars,
                log_writers, approval_writers>>

\* get_next up to the glob of pending/TASK-*.json: None when it lists nothing.
WorkerGlob(w) ==
    /\ tq_workers[w].pc \in {"idle", "returned", "raised"}
    /\ tq_calls < MaxTqCalls
    /\ tq_calls' = tq_calls + 1
    /\ tq_workers' = [tq_workers EXCEPT ![w] =
           [@ EXCEPT !.pc = IF DOMAIN tq_files.pending = {} THEN "returned" ELSE "read",
                     !.files = DOMAIN tq_files.pending,
                     !.tasks = NoTasks,
                     !.task = NoTasks]]
    /\ tq_op' = [op |-> "get_next", worker |-> w]
    /\ UNCHANGED <<tq_files, tq_now>>
    /\ WorkerFrame

\* One pass of `for filepath in pending_files`: open and json.load; open raises
\* FileNotFoundError when the file is no longer there.
WorkerRead(w) ==
    /\ tq_workers[w].pc = "read"
    /\ \E f \in tq_workers[w].files \ DOMAIN tq_workers[w].tasks :
          IF f \in DOMAIN tq_files.pending
          THEN LET tasks == With(tq_workers[w].tasks, f, tq_files.pending[f])
               IN  tq_workers' = [tq_workers EXCEPT ![w] =
                       [@ EXCEPT !.tasks = tasks,
                                 !.pc = IF DOMAIN tasks = tq_workers[w].files
                                        THEN "write" ELSE "read"]]
          ELSE tq_workers' = [tq_workers EXCEPT ![w] = [@ EXCEPT !.pc = "raised"]]
    /\ UNCHANGED <<tq_files, tq_now, tq_calls, tq_op>>
    /\ WorkerFrame

\* tasks.sort, and the first task written to in_progress/<name>.
WorkerWrite(w) ==
    /\ tq_workers[w].pc = "write"
    /\ \E i \in FirstSorted(tq_workers[w].tasks) :
          LET task == With(With(With(tq_workers[w].tasks[i],
                                "status", "in_progress"),
                                "started_at", IsoFormat(tq_now)),
                                "updated_at", IsoFormat(tq_now))
          IN  /\ tq_files' = [tq_files EXCEPT !.in_progress = With(@, task.id, task)]
              /\ tq_workers' = [tq_workers EXCEPT ![w] =
                     [@ EXCEPT !.pc = "unlink", !.task = task]]
    /\ UNCHANGED <<tq_now, tq_calls, tq_op>>
    /\ WorkerFrame

\* old_path.unlink(), which raises FileNotFoundError when the file is no
\* longer there, and `return task`.
WorkerUnlink(w) ==
    /\ tq_workers[w].pc = "unlink"
    /\ LET task_id == tq_workers[w].task.id
       IN  IF task_id \in DOMAIN tq_files.pending
           THEN /\ tq_files' = [tq_files EXCEPT !.pending = Without(@, {task_id})]
                /\ tq_workers' = [tq_workers EXCEPT ![w] =
                       [@ EXCEPT !.pc = "returned", !.got = @ \cup {task_id}]]
           ELSE /\ tq_workers' = [tq_workers EXCEPT ![w] = [@ EXCEPT !.pc = "raised"]]
                /\ UNCHANGED tq_files
    /\ UNCHANGED <<tq_now, tq_calls, tq_op>>
    /\ WorkerFrame

\* A worker completes a task that get_next returned to it.
WorkerComplete(w) ==
    /\ tq_workers[w].pc = "returned"
    /\ \E task_id \in tq_workers[w].got : Complete(task_id)

NextWorkers ==
    \/ TqTick
    \/ \E priority \in PriorityInputs :
           Add(GenerateId(Cardinality(TaskIds(tq_files)) + 1), priority)
    \/ \E w \in TqWorkers : WorkerGlob(w)
    \/ \E w \in TqWorkers : WorkerRead(w)
    \/ \E w \in TqWorkers : WorkerWrite(w)
    \/ \E w \in TqWorkers : WorkerUnlink(w)
    \/ \E w \in TqWorkers : WorkerComplete(w)

(***************************************************************************)
(* graceful_recovery.py                                                    *)
(*   A response of an agent is None, a str, a dict or a list.  The text of *)
(*   a str response is the sequence of its JSON tokens; of a dict only the *)
(*   keys matter.  The text of an error is the sequence of its code        *)
(*   points.                                                               *)
(***************************************************************************)
JsonError == [ok |-> FALSE]

\* The length of the JSON value that starts at token i: a number, an empty
\* array, or nothing (0).
ValueLen(tokens, i) ==
    IF i <= Len(tokens) /\ tokens[i] = "1" THEN 1
    ELSE IF i + 1 <= Len(tokens) /\ tokens[i] = "[" /\ tokens[i + 1] = "]" THEN 2
    ELSE 0

\* json.loads inside an object: from token i on, `"key": value` pairs
\* separated by commas, then the closing brace and the end of the text.
RECURSIVE ParseMembers(_, _, _)
ParseMembers(tokens, i, keys) ==
    IF /\ i + 1 <= Len(tokens)
       /\ tokens[i] \notin {"{", "}", "[", "]", ":", ",", "1"}
       /\ tokens[i + 1] = ":"
       /\ ValueLen(tokens, i + 2) > 0
    THEN LET j == i + 2 + ValueLen(tokens, i + 2)
         IN  IF j = Len(tokens) /\ tokens[j] = "}"
             THEN [ok |-> TRUE, kind |-> "dict", keys |-> keys \cup {tokens[i]}]
             ELSE IF j < Len(tokens) /\ tokens[j] = ","
             THEN ParseMembers(tokens, j + 1, keys \cup {tokens[i]})
             ELSE JsonError
    ELSE JsonError

\* json.loads(text): the value the text stands for, or JSONDecodeError.
JsonLoadsText(tokens) ==
    IF tokens = <<"{", "}">> THEN [ok |-> TRUE, kind |-> "dict", keys |-> {}]
    ELSE IF tokens # <<>> /\ tokens[1] = "{" THEN ParseMembers(tokens, 2, {})
    ELSE IF tokens # <<>> /\ ValueLen(tokens, 1) = Len(tokens)
    THEN [ok |-> TRUE, kind |-> IF tokens[1] = "1" THEN "number" ELSE "list", keys |-> {}]
    ELSE JsonError

\* required_fields of validate_agent_response
REQUIRED_FIELDS ==
    [ architect   |-> <<"plan", "steps">>,
      constructor |-> <<"files_modified", "status">>,
      auditor     |-> <<"security_score", "findings">>,
      tester      |-> <<"tests_passed", "results">>,
      researcher  |-> <<"context", "sources">> ]

\* validate_agent_response(response, agent_id) -> (is_valid, error_message)
ValidateAgentResponse(response, agent_id) ==
    LET agent_fields == Get(REQUIRED_FIELDS, agent_id, <<>>)
        missing == IF response.kind = "dict"
                   THEN SelectSeq(agent_fields, LAMBDA f : f \notin response.keys)
                   ELSE <<>>
    IN  IF response.kind = "none"
        THEN [is_valid |-> FALSE, error |-> <<"Agent returned None">>]
        ELSE IF response.kind = "str" /\ ~JsonLoadsText(response.tokens).ok
        THEN [is_valid |-> FALSE, error |-> <<"Malformed JSON">>]
        ELSE IF missing # <<>>
        THEN [is_valid |-> FALSE, error |-> <<"Missing required fields", missing>>]
        ELSE [is_valid |-> TRUE, error |-> <<"">>]

\* critical_errors of should_escalate_to_user: "security", "unauthorized",
\* "permission denied", "api key", "authentication"
CRITICAL_ERRORS ==
    << <<115, 101, 99, 117, 114, 105, 116, 121>>,
       <<117, 110, 97, 117, 116, 104, 111, 114, 105, 122, 101, 100>>,
       <<112, 101, 114, 109, 105, 115, 115, 105, 111, 110, 32, 100, 101, 110, 105, 101, 100>>,
       <<97, 112, 105, 32, 107, 101, 121>>,
       <<97, 117, 116, 104, 101, 110, 116, 105, 99, 97, 116, 105, 111, 110>> >>

\* str.lower() of an ASCII text
Lower(text) ==
    [i \in 1..Len(text) |-> IF text[i] >= 65 /\ text[i] <= 90 THEN text[i] + 32 ELSE text[i]]

\* sub in text
Contains(text, sub) ==
    \E i \in 0..(Len(text) - Len(sub)) : SubSeq(text, i + 1, i + Len(sub)) = sub

\* should_escalate_to_user(agent_id, error)
ShouldEscalateToUser(agent_id, error) ==
    LET error_lower == Lower(error)
    IN  \E k \in 1..Len(CRITICAL_ERRORS) : Contains(error_lower, CRITICAL_ERRORS[k])

RecIdle == [pc |-> "idle"]

NotReturned == [returned |-> FALSE]

NotEscalated == [called |-> FALSE]

\* No execute_with_recovery call yet, no recovery log.
InitRecoveryIdle == rec = RecIdle /\ recovery_log = <<>> /\ esc_op = NotEscalated

\* A history that keeps the failed validations only.
RecordFailureDropsExceptions(attempts, attempt, error, raised) ==
    IF raised THEN attempts
    ELSE Append(attempts, [attempt |-> attempt, error |-> error, feedback_generated |-> TRUE])

\* attempts.append({...}) of the two failure branches
RecordFailure(attempts, attempt, error, raised) ==
    Append(attempts,
           IF raised THEN [attempt |-> attempt, error |-> error, exception |-> TRUE]
           ELSE [attempt |-> attempt, error |-> error, feedback_generated |-> TRUE])

\* _log_recovery_event(event); the timestamp added to the event is left out.
LogRecoveryEvent(log, event) == Append(log, event)

\* execute_with_recovery(agent_id, task_fn, max_retries) up to the loop.  `calls`
\* is the record of what task_fn did each time it was called.
ExecuteWithRecovery(agent_id, max_retries) ==
    /\ rec.pc = "idle"
    /\ rec' = [ pc |-> "loop", agent_id |-> agent_id, max_retries |-> max_retries,
                attempt |-> 1, attempts |-> <<>>, last_error |-> <<>>,
                calls |-> <<>>, ret |-> NotReturned ]
    /\ UNCHANGED <<recovery_log, esc_op>>
    /\ RecFrame

\* One pass of the loop: task_fn() returns `outcome` or raises it.
RecAttempt(outcome) ==
    /\ rec.pc = "loop"
    /\ rec.attempt <= rec.max_retries
    /\ LET raised == outcome.kind = "raise"
           checked == IF raised THEN [is_valid |-> FALSE, error |-> <<outcome.message>>]
                      ELSE ValidateAgentResponse(outcome, rec.agent_id)
           called == Append(rec.calls, [attempt |-> rec.attempt, outcome |-> outcome,
                                       is_valid |-> checked.is_valid])
       IN  IF checked.is_valid
           THEN /\ recovery_log' = LogRecoveryEvent(recovery_log,
                       [agent_id |-> rec.agent_id, status |-> "success",
                        attempt |-> rec.attempt, total_attempts |-> Len(rec.attempts)])
                /\ rec' = [rec EXCEPT
                             !.pc = "returned",
                             !.calls = called,
                             !.ret = [success |-> TRUE, response |-> outcome,
                                      attempts |-> rec.attempt,
                                      recovered |-> rec.attempt > 1]]
           ELSE /\ recovery_log' = LogRecoveryEvent(recovery_log,
                       [agent_id |-> rec.agent_id,
                        status |-> IF raised THEN "exception" ELSE "retry",
                        attempt |-> rec.attempt, error |-> checked.error])
                /\ rec' = [rec EXCEPT
                             !.attempt = @ + 1,
                             !.calls = called,
                             !.last_error = checked.error,
                             !.attempts = RecordFailure(@, rec.attempt, checked.error, raised)]
    /\ UNCHANGED esc_op
    /\ RecFrame

\* The loop is over without a valid response.
RecGiveUp ==
    /\ rec.pc = "loop"
    /\ rec.attempt > rec.max_retries
    /\ recovery_log' = LogRecoveryEvent(recovery_log,
           [agent_id |-> rec.agent_id, status |-> "failed",
            total_attempts |-> rec.max_retries, last_error |-> rec.last_error])
    /\ rec' = [rec EXCEPT
                 !.pc = "returned",
                 !.ret = [success |-> FALSE, error |-> rec.last_error,
                          attempts |-> rec.attempts, recovered |-> FALSE]]
    /\ UNCHANGED esc_op
    /\ RecFrame

\* The roles with a minimum field set, and one without.
AgentInputs == {"architect", "constructor", "auditor", "tester", "researcher", "helper"}

\* What task_fn hands back: None; the texts ``, `oops`, `{"plan": 1`, `{"plan": 1}`,
\* `{"plan": 1, "steps": []}`, `[]`; the dicts {}, {"plan": ..},
\* {"plan": .., "steps": ..}; the list []; or an exception it raises.
OutcomeInputs ==
    { [kind |-> "none"],
      [kind |-> "str", tokens |-> <<>>],
      [kind |-> "str", tokens |-> <<"oops">>],
      [kind |-> "str", tokens |-> <<"{", "plan", ":", "1">>],
      [kind |-> "str", tokens |-> <<"{", "plan", ":", "1", "}">>],
      [kind |-> "str", tokens |-> <<"{", "plan", ":", "1", ",", "steps", ":", "[", "]", "}">>],
      [kind |-> "str", tokens |-> <<"[", "]">>],
      [kind |-> "dict", keys |-> {}],
      [kind |-> "dict", keys |-> {"plan"}],
      [kind |-> "dict", keys |-> {"plan", "steps"}],
      [kind |-> "list"],
      [kind |-> "raise", message |-> "boom"] }

NextRecovery ==
    \/ \E agent_id \in {"architect", "helper"}, max_retries \in 0..MaxRecoveryRetries :
           ExecuteWithRecovery(agent_id, max_retries)
    \/ \E outcome \in OutcomeInputs : RecAttempt(outcome)
    \/ RecGiveUp

\* The error texts should_escalate_to_user is asked about: "Permission denied",
\* "UNAUTHORIZED", "bad api key", "timeout", "invalid credentials",
\* "authorization failed", "permission error", "Security alert",
\* "authentication failed".
ErrorInputs ==
    { <<80, 101, 114, 109, 105, 115, 115, 105, 111, 110, 32, 100, 101, 110, 105, 101, 100>>,
      <<85, 78, 65, 85, 84, 72, 79, 82, 73, 90, 69, 68>>,
      <<98, 97, 100, 32, 97, 112, 105, 32, 107, 101, 121>>,
      <<116, 105, 109, 101, 111, 117, 116>>,
      <<105, 110, 118, 97, 108, 105, 100, 32, 99, 114, 101, 100, 101, 110, 116, 105, 97, 108, 115>>,
      <<97, 117, 116, 104, 111, 114, 105, 122, 97, 116, 105, 111, 110, 32, 102, 97, 105, 108, 101, 100>>,
      <<112, 101, 114, 109, 105, 115, 115, 105, 111, 110, 32, 101, 114, 114, 111, 114>>,
      <<83, 101, 99, 117, 114, 105, 116, 121, 32, 97, 108, 101, 114, 116>>,
      <<97, 117, 116, 104, 101, 110, 116, 105, 99, 97, 116, 105, 111, 110, 32, 102, 97, 105, 108, 101, 100>> }

\* should_escalate_to_user is about to be called with an agent and an error.
InitEscalate ==
    /\ InitAudit /\ ~log_exists /\ InitDisp /\ InitPlanIdle /\ InitHitlIdle /\ InitGenIdle
    /\ InitTaskQueueIdle /\ InitConcurrentIdle /\ InitBlackboardIdle
    /\ rec = RecIdle /\ recovery_log = <<>>
    /\ esc_op \in {[called |-> FALSE, agent_id |-> a, error |-> e, ret |-> FALSE] :
                      a \in AgentInputs, e \in ErrorInputs}

\* should_escalate_to_user(agent_id, error) is called.
Escalate ==
    /\ ~esc_op.called
    /\ "error" \in DOMAIN esc_op
    /\ esc_op' = [esc_op EXCEPT !.called = TRUE,
                                !.ret = ShouldEscalateToUser(esc_op.agent_id, esc_op.error)]
    /\ UNCHANGED <<rec, recovery_log>>
    /\ RecFrame

NextEscalate == Escalate

(***************************************************************************)
(* blackboard.py                                                           *)
(*   A value of the state is None, a scalar, a list or a dict; a key is    *)
(*   the sequence of its dot-separated parts.  The timestamps of the state *)
(*   and of the history entries are left out.  _lock is a threading.Lock:  *)
(*   it is not reentrant, and `with _lock` waits until the lock is free.   *)
(***************************************************************************)
PyNone == [kind |-> "none"]

Scalar(x) == [kind |-> "scalar", v |-> x]

Dict(items) == [kind |-> "dict", items |-> items]

\* _default_state()
DefaultState ==
    Dict([ version |-> Scalar("1.0"),
           current_phase |-> PyNone,
           current_agent |-> PyNone,
           current_plan_id |-> PyNone,
           current_step |-> Scalar("0"),
           context |-> Dict(<<>>),
           results |-> Dict(<<>>),
           errors |-> [kind |-> "list"] ])

\* _load_state(): the state file as written by _save_state, or the default
\* state when there is none.
LoadState == IF bb_state.exists THEN bb_state.content ELSE DefaultState

\* _save_state(state)
SaveState(state) == [exists |-> TRUE, content |-> state]

\* The walk of Blackboard.get along the parts of the key.
RECURSIVE GetPath(_, _, _)
GetPath(value, keys, default) ==
    IF keys = <<>> THEN value
    ELSE IF value.kind = "dict" /\ Head(keys) \in DOMAIN value.items
    THEN GetPath(value.items[Head(keys)], Tail(keys), default)
    ELSE default

\* The walk of Blackboard.set along the parts of the key but the last, which
\* creates the dicts there are not, and the assignment to the last part.  A
\* part that names a value that is no dict raises TypeError.
RECURSIVE SetPath(_, _, _)
SetPath(target, keys, value) ==
    IF target.kind # "dict" THEN [raised |-> TRUE]
    ELSE IF Len(keys) = 1
    THEN [raised |-> FALSE, value |-> Dict(With(target.items, keys[1], value))]
    ELSE LET inner == SetPath(Get(target.items, Head(keys), Dict(<<>>)), Tail(keys), value)
         IN  IF inner.raised THEN inner
             ELSE [raised |-> FALSE,
                   value |-> Dict(With(target.items, Head(keys), inner.value))]

\* The entry _log_change appends to the history.
ChangeEntry(key, old_value, new_value, agent) ==
    [key |-> key, old_value |-> old_value, new_value |-> new_value, agent |-> agent]

BbThreads == {1, 2}

BbIdle == [pc |-> "idle", n |-> 0]

\* A thread calls Blackboard.get(key), Blackboard.set(key, value) or
\* Blackboard.clear() and comes to the `with _lock` of the method.
BbCall(t, op, key, value) ==
    /\ bb_threads[t].pc \in {"idle", "returned", "raised"}
    /\ bb_threads[t].n < MaxBbCalls
    /\ bb_threads' = [bb_threads EXCEPT ![t] =
           [pc |-> "acquire", n |-> bb_threads[t].n + 1, op |-> op, key |-> key,
            value |-> value, in_set |-> FALSE]]
    /\ UNCHANGED <<bb_state, bb_history, bb_lock>>
    /\ BbFrame

\* `with _lock:` the thread gets the lock once nobody holds it.
BbAcquire(t) ==
    /\ bb_threads[t].pc = "acquire"
    /\ bb_lock = 0
    /\ bb_lock' = t
    /\ bb_threads' = [bb_threads EXCEPT ![t].pc =
           IF bb_threads[t].in_set \/ bb_threads[t].op = "get" THEN "get_body"
           ELSE IF bb_threads[t].op = "set" THEN "set_body" ELSE "clear_body"]
    /\ UNCHANGED <<bb_state, bb_history>>
    /\ BbFrame

\* The body of Blackboard.get and the release of the lock at its end.  When get
\* was called by set, set goes on from there to its end: it writes the value,
\* saves the state and logs the change; its own `with _lock` then releases a
\* lock that get has released already, which raises RuntimeError.
BbGetBody(t) ==
    /\ bb_threads[t].pc = "get_body"
    /\ bb_lock' = 0
    /\ LET me == bb_threads[t]
           found == GetPath(LoadState, me.key, PyNone)
           written == SetPath(me.state, me.key, me.value)
       IN  IF ~me.in_set
           THEN /\ bb_threads' = [bb_threads EXCEPT ![t] =
                       [pc |-> "returned", n |-> me.n, op |-> me.op, key |-> me.key,
                        ret |-> found]]
                /\ UNCHANGED <<bb_state, bb_history>>
           ELSE /\ bb_threads' = [bb_threads EXCEPT ![t] =
                       [pc |-> "raised", n |-> me.n, op |-> me.op, key |-> me.key]]
                /\ IF written.raised THEN UNCHANGED <<bb_state, bb_history>>
                   ELSE /\ bb_state' = SaveState(written.value)
                        /\ bb_history' = Append(bb_history,
                               ChangeEntry(me.key, found, me.value, PyNone))
    /\ BbFrame

\* Blackboard.set with the lock held, up to its call of cls.get(key).
BbSetBody(t) ==
    /\ bb_threads[t].pc = "set_body"
    /\ bb_threads' = [bb_threads EXCEPT ![t] =
           [pc |-> "acquire", n |-> bb_threads[t].n, op |-> "set",
            key |-> bb_threads[t].key, value |-> bb_threads[t].value,
            in_set |-> TRUE, state |-> LoadState]]
    /\ UNCHANGED <<bb_state, bb_history, bb_lock>>
    /\ BbFrame

\* The body of Blackboard.clear() and the release of the lock at its end.
BbClearBody(t) ==
    /\ bb_threads[t].pc = "clear_body"
    /\ bb_state' = SaveState(DefaultState)
    /\ bb_lock' = 0
    /\ bb_threads' = [bb_threads EXCEPT ![t] =
           [pc |-> "returned", n |-> bb_threads[t].n, op |-> "clear",
            key |-> <<>>, ret |-> PyNone]]
    /\ UNCHANGED bb_history
    /\ BbFrame

\* The keys current_phase, current_step and context.files.
BbKeyInputs == {<<"current_phase">>, <<"current_step">>, <<"context", "files">>}

NextBlackboard ==
    \/ \E t \in BbThreads, key \in BbKeyInputs : BbCall(t, "get", key, PyNone)
    \/ \E t \in BbThreads, key \in BbKeyInputs :
           BbCall(t, "set", key, Scalar("implementation"))
    \/ \E t \in BbThreads : BbCall(t, "clear", <<>>, PyNone)
    \/ \E t \in BbThreads : BbAcquire(t)
    \/ \E t \in BbThreads : BbGetBody(t)
    \/ \E t \in BbThreads : BbSetBody(t)
    \/ \E t \in BbThreads : BbClearBody(t)

Init == InitAudit /\ InitDisp /\ InitPlanIdle /\ InitHitlIdle /\ InitRecoveryIdle /\ InitTaskQueueIdle /\ InitConcurrentIdle /\ InitBlackboardIdle /\ InitGenIdle

\* No execute_with_recovery call made yet; the other components are idle.
InitRecovery ==
    /\ InitAudit /\ ~log_exists /\ InitDisp /\ InitPlanIdle /\ InitHitlIdle /\ InitGenIdle
    /\ InitRecoveryIdle /\ InitTaskQueueIdle /\ InitConcurrentIdle /\ InitBlackboardIdle

SpecRecovery == InitRecovery /\ [][NextRecovery]_vars

SpecEscalate == InitEscalate /\ [][NextEscalate]_vars

\* An empty task queue; the other components are idle.
InitTaskQueue ==
    /\ InitAudit /\ ~log_exists /\ InitDisp /\ InitPlanIdle /\ InitHitlIdle /\ InitGenIdle
    /\ InitRecoveryIdle /\ InitTaskQueueIdle /\ InitConcurrentIdle /\ InitBlackboardIdle

SpecTaskQueue == InitTaskQueue /\ [][NextTaskQueue]_vars

\* Two workers about to call get_next on an empty task queue; the other
\* components are idle.
InitWorkers ==
    /\ InitAudit /\ ~log_exists /\ InitDisp /\ InitPlanIdle /\ InitHitlIdle /\ InitGenIdle
    /\ InitRecoveryIdle /\ InitTaskQueueIdle /\ InitBlackboardIdle
    /\ log_writers = NoCallers
    /\ approval_writers = NoCallers
    /\ tq_workers = [w \in TqWorkers |-> WorkerIdle]

SpecWorkers == InitWorkers /\ [][NextWorkers]_vars

\* Two threads about to use the blackboard; the other components are idle.
InitBlackboard ==
    /\ InitAudit /\ ~log_exists /\ InitDisp /\ InitPlanIdle /\ InitHitlIdle /\ InitGenIdle
    /\ InitRecoveryIdle /\ InitTaskQueueIdle /\ InitConcurrentIdle
    /\ bb_state = NoStateFile
    /\ bb_history = <<>>
    /\ bb_lock = 0
    /\ bb_threads = [t \in BbThreads |-> BbIdle]

\* Every thread that can take a step of its call takes it in the end: a
\* thread at `with _lock` gets the lock when it stays free.
SpecBlackboard ==
    /\ InitBlackboard
    /\ [][NextBlackboard]_vars
    /\ \A t \in BbThreads :
           /\ WF_vars(BbAcquire(t))
           /\ WF_vars(BbGetBody(t))
           /\ WF_vars(BbSetBody(t))
           /\ WF_vars(BbClearBody(t))

\* Two writers about to log into an absent or empty audit log; the other
\* components are idle.
InitWriters ==
    /\ InitAudit /\ InitDisp /\ InitPlanIdle /\ InitHitlIdle /\ InitGenIdle
    /\ InitRecoveryIdle /\ InitTaskQueueIdle /\ InitBlackboardIdle
    /\ log_writers = [w \in LogWriters |-> WriterIdle]
    /\ approval_writers = NoCallers
    /\ tq_workers = NoCallers

NextWriters ==
    \/ \E w \in LogWriters, event_type \in AuditEventInputs,
          details \in {<<>>, << <<StrKey(<<97>>), 1>> >>} :
           WriterBegin(w, event_type, details)
    \/ \E w \in LogWriters : WriterReadHash(w)
    \/ \E w \in LogWriters : WriterReadSequence(w)
    \/ \E w \in LogWriters : WriterAppend(w)

SpecWriters == InitWriters /\ [][NextWriters]_vars

\* Two callers about to record decisions in an empty approval store; the
\* other components are idle.
InitDeciders ==
    /\ InitAudit /\ ~log_exists /\ InitDisp /\ InitPlanIdle /\ InitHitlIdle /\ InitGenIdle
    /\ InitRecoveryIdle /\ InitTaskQueueIdle /\ InitBlackboardIdle
    /\ log_writers = NoCallers
    /\ approval_writers = [w \in ApprovalWriters |-> DeciderIdle]
    /\ tq_workers = NoCallers

NextDeciders ==
    \/ \E w \in ApprovalWriters, approved \in BOOLEAN, plan_id \in HitlPlanIds,
          step_id \in {S01, S02} : DecideLoad(w, approved, plan_id, step_id)
    \/ \E w \in ApprovalWriters : DecideSave(w)

SpecDeciders == InitDeciders /\ [][NextDeciders]_vars

\* The dispatcher started beside an audit log nobody has written yet.
InitDispatcher ==
    InitAudit /\ ~log_exists /\ InitDisp /\ InitPlanIdle /\ InitHitlIdle /\ InitRecoveryIdle /\ InitTaskQueueIdle /\ InitConcurrentIdle /\ InitBlackboardIdle /\ InitGenIdle

\* The validator run on a plan file; the other components are idle.
InitValidate ==
    /\ InitAudit /\ ~log_exists /\ InitDisp /\ InitHitlIdle /\ InitRecoveryIdle /\ InitTaskQueueIdle /\ InitConcurrentIdle /\ InitBlackboardIdle /\ InitGenIdle
    /\ plan \in PlanInputs /\ val_ret = NotValidated

SpecValidate == InitValidate /\ [][Validate]_vars

\* validate_dependencies run on a plan; the other components are idle.
InitDependencies ==
    /\ InitAudit /\ ~log_exists /\ InitDisp /\ InitHitlIdle /\ InitRecoveryIdle /\ InitTaskQueueIdle /\ InitConcurrentIdle /\ InitBlackboardIdle /\ InitGenIdle
    /\ plan \in DepPlanInputs /\ val_ret = NotValidated

SpecDependencies == InitDependencies /\ [][ValidateDeps]_vars

\* The semantic validator run on a plan; the other components are idle.
InitSemantic ==
    /\ InitAudit /\ ~log_exists /\ InitDisp /\ InitHitlIdle /\ InitRecoveryIdle /\ InitTaskQueueIdle /\ InitConcurrentIdle /\ InitBlackboardIdle
    /\ plan \in SemanticPlanInputs
    /\ val_ret = NotValidated
    /\ fs_files \in SUBSET {FileA, FileDotA, FileParentA}
    /\ indexed \in IndexInputs
    /\ sem_ret = NotChecked
    /\ gen = GenIdle /\ plans_dir = <<>> /\ fs_changes = 0

SpecSemantic == InitSemantic /\ [][SemanticCheck]_vars

\* The semantic validator, the repair of a plan it failed, and the validator on
\* the repaired plan.
NextRepair ==
    \/ SemanticCheck
    \/ Repair
    \/ SemanticRecheck

SpecRepair == InitSemantic /\ [][NextRepair]_vars

\* The generator started in a working directory; the other components are idle.
InitGenerate ==
    /\ InitAudit /\ ~log_exists /\ InitDisp /\ InitHitlIdle /\ InitRecoveryIdle /\ InitTaskQueueIdle /\ InitConcurrentIdle /\ InitBlackboardIdle
    /\ plan = NoPlan
    /\ val_ret = NotValidated
    /\ fs_files \in SUBSET {FileA, FileDotA, FileParentA}
    /\ indexed \in IndexInputs
    /\ sem_ret = NotChecked
    /\ gen = GenIdle /\ plans_dir = <<>> /\ fs_changes = 0

SpecGenerate == InitGenerate /\ [][NextGenerate]_vars

\* The generator is one sequential function: once called, it keeps executing its
\* next statement (the validate_plan.py subprocess has a timeout of 30 s).
SpecGenerateFair ==
    /\ SpecGenerate
    /\ WF_vars(\E env_ok \in BOOLEAN : GenStructural(env_ok))
    /\ WF_vars(GenSemantic)
    /\ WF_vars(GenFailed)

\* The gate run on a plan file, with no approval recorded yet.
InitHitl ==
    /\ InitAudit /\ ~log_exists /\ InitDisp
    /\ plan \in HitlPlanInputs /\ val_ret = NotValidated
    /\ InitHitlIdle /\ InitRecoveryIdle /\ InitTaskQueueIdle /\ InitConcurrentIdle /\ InitBlackboardIdle /\ InitGenIdle

SpecHitl == InitHitl /\ [][NextHitl]_vars

(***************************************************************************)
(* orchestrator.py: main runs the phases Pre-Flight Check, HITL Gate,      *)
(* Execution, Evidence Collection in this order and stops at the first     *)
(* that fails.                                                             *)
(***************************************************************************)
\* main up to the end of phase 1.  The phase passes when the working tree is
\* clean or the operator goes on (env_ok) and validate_plan.py accepts the plan.
OrchStart(env_ok) ==
    /\ HitlCallAllowed /\ ia.pc = "idle" /\ orch.pc = "idle"
    /\ hitl_calls' = hitl_calls + 1
    /\ LET success == /\ env_ok
                      /\ ValidateSteps(plan) = <<>>
                      /\ ValidateDependencies(plan) = <<>>
       IN  orch' = [PhaseReturned(PhaseCalled(OrchIdle, PhaseNames[1]), PhaseNames[1], success)
                       EXCEPT !.pc = IF success THEN "gate" ELSE "stopped"]
    /\ UNCHANGED <<approvals, now, ticks, hitl_op, ia>>
    /\ HitlFrame

\* phase_hitl: `hitl_gate.py --check`; when it fails the operator is asked
\* whether to start `hitl_gate.py --interactive`.
OrchGate(interactive) ==
    /\ orch.pc = "gate" /\ ia.pc = "idle"
    /\ LET called == PhaseCalled(orch, PhaseNames[2])
       IN  IF CheckAllHitlResult(plan, approvals, now)
           THEN /\ orch' = [PhaseCalled(PhaseReturned(called, PhaseNames[2], TRUE), PhaseNames[3])
                               EXCEPT !.pc = "execute", !.i = 1]
                /\ UNCHANGED ia
           ELSE IF interactive
           THEN /\ orch' = [called EXCEPT !.pc = "gate_interactive"]
                /\ ia' = [pc |-> "loop", i |-> 1, snapshot |-> approvals, by |-> "orch"]
           ELSE /\ orch' = [PhaseReturned(called, PhaseNames[2], FALSE) EXCEPT !.pc = "stopped"]
                /\ UNCHANGED ia
    /\ UNCHANGED <<approvals, now, ticks, hitl_calls, hitl_op>>
    /\ HitlFrame

\* One pass of the loop of phase_execute: the step is shown.  `approved` records
\* what check_step_approval would have answered at this moment.
OrchExecuteStep ==
    /\ orch.pc = "execute"
    /\ orch.i <= Len(Get(plan, "steps", <<>>))
    /\ LET step == plan.steps[orch.i]
       IN  orch' = [orch EXCEPT
                      !.i = @ + 1,
                      !.processed = Append(@,
                          [ step_id |-> Get(step, "id", <<>>),
                            gateable |-> step \in { GetWriteSteps(plan)[j] :
                                                      j \in 1..Len(GetWriteSteps(plan)) },
                            approved |-> CheckStepApproval(Get(plan, "plan_id", "None"),
                                             Get(step, "id", <<>>), approvals, now) ])]
    /\ UNCHANGED <<approvals, now, ticks, hitl_calls, hitl_op, ia>>
    /\ HitlFrame

\* phase_execute returns True; phase_evidence runs collect_evidence.py.
OrchFinish(evidence_ok) ==
    /\ orch.pc = "execute"
    /\ orch.i > Len(Get(plan, "steps", <<>>))
    /\ LET executed == PhaseReturned(orch, PhaseNames[3], TRUE)
       IN  orch' = [PhaseReturned(PhaseCalled(executed, PhaseNames[4]), PhaseNames[4], evidence_ok)
                       EXCEPT !.pc = IF evidence_ok THEN "completed" ELSE "incomplete"]
    /\ UNCHANGED <<approvals, now, ticks, hitl_calls, hitl_op, ia>>
    /\ HitlFrame

\* The phase that is running raises: KeyboardInterrupt (the operator aborts; main
\* leaves the loop without a result for the phase) or another exception (main
\* records the phase as failed).  Either way main exits; the hitl_gate.py
\* subprocess of the gate, if any, is gone.
OrchAbort(keyboard_interrupt) ==
    /\ orch.pc \in {"gate", "gate_interactive", "execute"}
    /\ LET name == IF orch.pc = "execute" THEN PhaseNames[3] ELSE PhaseNames[2]
           called == IF orch.pc = "gate" THEN PhaseCalled(orch, name) ELSE orch
       IN  orch' = IF keyboard_interrupt
                   THEN [called EXCEPT !.pc = "stopped", !.interrupted = TRUE,
                                       !.exit_code = <<ExitCode(called.results)>>]
                   ELSE [PhaseReturned(called, name, FALSE) EXCEPT !.pc = "stopped"]
    /\ ia' = IF orch.pc = "gate_interactive" THEN IaIdle ELSE ia
    /\ UNCHANGED <<approvals, now, ticks, hitl_calls, hitl_op>>
    /\ HitlFrame

NextOrch ==
    \/ TickAny
    \/ ApproveStepAny
    \/ RejectStepAny
    \/ InteractiveStepAny
    \/ InteractiveEnd
    \/ \E env_ok \in BOOLEAN : OrchStart(env_ok)
    \/ \E interactive \in BOOLEAN : OrchGate(interactive)
    \/ OrchExecuteStep
    \/ \E evidence_ok \in BOOLEAN : OrchFinish(evidence_ok)

SpecOrch == InitHitl /\ [][NextOrch]_vars

\* The plan files a pipeline run is started on: no steps; two steps, the second
\* depending on the first; the first depending on the second; each depending on
\* the other; a dependency that names no step; a flagged write before a read
\* that depends on it.
PipelinePlanInputs ==
    { [plan_id |-> "PLAN-A"],
      [plan_id |-> "PLAN-A",
       steps |-> <<[id |-> S01, action |-> "read_file", target |-> <<".">>],
                   [id |-> S02, action |-> "lint_check", target |-> <<".">>,
                    depends_on |-> <<S01>>]>>],
      [plan_id |-> "PLAN-A",
       steps |-> <<[id |-> S01, action |-> "lint_check", target |-> <<".">>,
                    depends_on |-> <<S02>>],
                   [id |-> S02, action |-> "read_file", target |-> <<".">>]>>],
      [plan_id |-> "PLAN-A",
       steps |-> <<[id |-> S01, action |-> "read_file", target |-> <<".">>,
                    depends_on |-> <<S02>>],
                   [id |-> S02, action |-> "read_file", target |-> <<".">>,
                    depends_on |-> <<S01>>]>>],
      [plan_id |-> "PLAN-A",
       steps |-> <<[id |-> S01, action |-> "read_file", target |-> <<".">>,
                    depends_on |-> <<<<"S", "0", "9">>>>]>>],
      [plan_id |-> "PLAN-A",
       steps |-> <<[id |-> S01, action |-> "write_file", target |-> <<".">>,
                    hitl_required |-> TRUE],
                   [id |-> S02, action |-> "read_file", target |-> <<".">>,
                    depends_on |-> <<S01>>]>>] }

\* The orchestrator started on a plan file, with no approval recorded and an
\* audit log nobody has written yet.
InitPipeline ==
    /\ InitAudit /\ ~log_exists /\ InitDisp
    /\ plan \in PipelinePlanInputs /\ val_ret = NotValidated
    /\ InitHitlIdle /\ InitRecoveryIdle /\ InitTaskQueueIdle /\ InitConcurrentIdle /\ InitBlackboardIdle /\ InitGenIdle

NextPipeline ==
    \/ TickAny
    \/ ApproveStepAny
    \/ \E env_ok \in BOOLEAN : OrchStart(env_ok)
    \/ \E interactive \in BOOLEAN : OrchGate(interactive)
    \/ InteractiveStepAny
    \/ InteractiveEnd
    \/ OrchExecuteStep
    \/ \E evidence_ok \in BOOLEAN : OrchFinish(evidence_ok)
    \/ \E keyboard_interrupt \in BOOLEAN : OrchAbort(keyboard_interrupt)

SpecPipeline == InitPipeline /\ [][NextPipeline]_vars

SpecAudit == Init /\ [][NextAudit]_vars

SpecAuditTamper == Init /\ [][NextAuditTamper]_vars

SpecDisp == InitDispatcher /\ [][NextDisp]_vars

\* logs/queue.jsonl as an earlier process left it: absent, empty, or holding the
\* envelopes of emissions that failed (queue_event is their only writer).
QueueInputs ==
    { <<>>,
      << QueueEntry("PLAN_VALIDATED",
             FullPayload("PLAN_VALIDATED", "PLAN-A",
                         GenerateIdempotencyKey("PLAN_VALIDATED", "PLAN-A"))) >>,
      << QueueEntry("PLAN_VALIDATED",
             FullPayload("PLAN_VALIDATED", "PLAN-A",
                         GenerateIdempotencyKey("PLAN_VALIDATED", "PLAN-A"))),
         QueueEntry("PLAN_VALIDATED", FullPayload("PLAN_VALIDATED", "", None)) >> }

\* A dispatcher process that starts with the queue file of an earlier one.
InitQueue ==
    /\ InitAudit /\ ~log_exists
    /\ InitPlanIdle /\ InitHitlIdle /\ InitRecoveryIdle /\ InitTaskQueueIdle /\ InitConcurrentIdle /\ InitBlackboardIdle /\ InitGenIdle
    /\ webhook_config = ConfigInput
    /\ idem_file = {}
    /\ queue_exists \in BOOLEAN
    /\ queue_file \in QueueInputs
    /\ (~queue_exists => queue_file = <<>>)
    /\ runs = <<>>
    /\ pq = PqIdle
    /\ calls = 0
    /\ disp_op = NoCall
    /\ effects = [p \in Pairs |-> 0]
    /\ emitted = {}
    /\ forced = FALSE

\* emit as its callers use it: the defaults force=False, async_mode=True.
EmitDefault ==
    \E event_type \in EventInputs, plan_id \in PlanIdInputs :
        Emit(event_type, plan_id, FALSE, TRUE)

NextQueue ==
    \/ EmitDefault
    \/ SendAttemptAny
    \/ SaveKeyAny
    \/ QueueEventAny
    \/ ProcessQueueBegin
    \/ ProcessQueueLineAny
    \/ ProcessQueueSaveKey
    \/ ProcessQueueEof
    \/ ProcessQueueRewrite

SpecQueue == InitQueue /\ [][NextQueue]_vars

(***************************************************************************)
(* Claims about the audit trail                                            *)
(***************************************************************************)
ErrorEntries(result) == {result.errors[i].entry : i \in 1..Len(result.errors)}

\* C1: after any sequence of sequential AuditTrail.log calls from an absent or
\* empty log, the first entry's previous_hash is GENESIS and every later entry's
\* previous_hash is the entry_hash of the entry right before it in the file.
C1_ChainLinked ==
    \A i \in 1..Len(log_file) :
        log_file[i].previous_hash =
            IF i = 1 THEN GENESIS ELSE log_file[i - 1].entry_hash

C1_Witness == audit_op = "log" /\ Len(log_file) >= 2

\* C2 (as claimed): once any one field of entry k of a log that verified as valid
\* has been altered, verify_integrity returns valid=false and names entry k.
C2_AlterationDetected ==
    (audit_op = "verify" /\ tampered.k # 0 /\ tampered.was_valid)
        => (~audit_ret.valid /\ tampered.k \in ErrorEntries(audit_ret))

\* C3 (as claimed): on a log written only by AuditTrail.log, verify_integrity
\* returns valid=true with the entry count.
C3_VerifyValidOnWrittenLog ==
    audit_op = "verify" => (audit_ret.valid /\ audit_ret.entries = Len(log_file))

\* C4 (as claimed): after entry k's previous_hash has been replaced, the lowest
\* entry verify_integrity reports is k, and the alteration does not make it
\* report the link of entry k+1.
C4_FailureStartsAtAlteredEntry ==
    (audit_op = "verify" /\ tampered.field = "previous_hash")
        => /\ tampered.k \in ErrorEntries(audit_ret)
           /\ \A e \in ErrorEntries(audit_ret) : e >= tampered.k
           /\ [entry |-> tampered.k + 1, error |-> "Hash anterior no coincide"]
                  \notin {audit_ret.errors[i] : i \in 1..Len(audit_ret.errors)}

SavePending(key) ==
    \/ \E r \in 1..Len(runs) : runs[r].pc = "save" /\ runs[r].key = key
    \/ pq.pc = "save" /\ queue_file[pq.i].payload.idempotency_key = key

\* C6 (as claimed, for events that carry a plan id): with force=false throughout,
\* no (event type, plan id) pair gets more than one 2xx response over any sequence
\* of emit and process_queue calls.
C6_AtMostOneEffect == ~forced => \A p \in Pairs : p[2] # "" => effects[p] <= 1

\* C7 (as claimed, for events that carry a plan id): an emit with force=false of a
\* pair that was emitted before (all with force=false) starts no delivery attempts.
C7_SecondEmitStartsNothing ==
    (disp_op.op = "emit" /\ ~disp_op.force /\ ~forced /\ disp_op.repeat
        /\ disp_op.plan_id # "")
        => ~disp_op.started

\* C8: for a valid event type with a configured destination whose idempotency key
\* is in the delivered-key store, emit with force=false starts no delivery and
\* leaves the queue and the store unchanged; with force=true it starts a delivery.
C8_DuplicateEmitIsNoOp ==
    [][ ( /\ calls' = calls + 1
          /\ disp_op'.op = "emit"
          /\ IsEventValid(disp_op'.event_type)
          /\ GetWebhookUrl(disp_op'.event_type) # ""
          /\ GenerateIdempotencyKey(disp_op'.event_type, disp_op'.plan_id) \in idem_file )
        => IF disp_op'.force
           THEN /\ Len(runs') = Len(runs) + 1
                /\ runs'[Len(runs')].pc = "send"
                /\ runs'[Len(runs')].event_type = disp_op'.event_type
                /\ runs'[Len(runs')].plan_id = disp_op'.plan_id
           ELSE UNCHANGED <<runs, queue_exists, queue_file, idem_file, effects>> ]_vars

C8_Witness ==
    /\ disp_op.op = "emit"
    /\ disp_op.recorded
    /\ ~disp_op.force
    /\ ~disp_op.started
    /\ effects[<<disp_op.event_type, disp_op.plan_id>>] = 1

\* C9 (as claimed, for events that carry a plan id): once a delivery of a pair has
\* got a 2xx response and its key has been saved, the key is in the delivered-key store.
C9_DeliveredKeyRecorded ==
    \A p \in Pairs :
        (p[2] # "" /\ effects[p] >= 1 /\ ~SavePending(GenerateIdempotencyKey(p[1], p[2])))
            => GenerateIdempotencyKey(p[1], p[2]) \in idem_file

\* C10 (as claimed): when the retry sequence of an emission ends with every attempt
\* failed, the envelope is in the queue with status pending and its key is absent
\* from the delivered-key store.
C10_FailedEmissionQueuedKeyAbsent ==
    [][ \A r \in 1..Len(runs) :
          (~Ended(runs[r]) /\ Ended(runs'[r]) /\ ~runs'[r].got2xx)
              => /\ \E i \in 1..Len(queue_file') :
                       /\ queue_file'[i].status = "pending"
                       /\ queue_file'[i].payload =
                              FullPayload(runs[r].event_type, runs[r].plan_id, runs[r].key)
                 /\ runs[r].key \notin idem_file' ]_vars

\* C10 (amended): when the retry sequence of an emission ends with every attempt
\* failed, three attempts were made, the envelope has been appended to the queue
\* with status pending, and the emission has not written the delivered-key store:
\* its key is there only if another delivery of the same pair got a 2xx response.
C10_FailedEmissionQueuedStoreUntouched ==
    [][ \A r \in 1..Len(runs) :
          (~Ended(runs[r]) /\ Ended(runs'[r]) /\ ~runs'[r].got2xx)
              => /\ runs'[r].pc = "failed"
                 /\ runs'[r].attempt = MAX_RETRIES
                 /\ queue_exists'
                 /\ queue_file' = Append(queue_file,
                        [ event_type |-> runs[r].event_type,
                          payload |-> FullPayload(runs[r].event_type, runs[r].plan_id,
                                                  runs[r].key),
                          status |-> "pending" ])
                 /\ idem_file' = idem_file
                 /\ (runs[r].key \in idem_file'
                        => effects'[<<runs[r].event_type, runs[r].plan_id>>] >= 1) ]_vars

C10_Witness ==
    \E r \in 1..Len(runs) :
        /\ runs[r].pc = "failed"
        /\ ~runs[r].got2xx
        /\ runs[r].attempt = MAX_RETRIES
        /\ forced
        /\ runs[r].key \in idem_file
        /\ queue_file # <<>>
        /\ queue_file[Len(queue_file)].payload.idempotency_key = runs[r].key

\* The delivery attempts a run has made: its failures, plus the one that succeeded.
Attempts(run) == run.attempt + (IF run.pc \in {"save", "ok"} THEN 1 ELSE 0)

\* C11: one emission makes at most MAX_RETRIES = 3 delivery attempts and none after
\* a successful one; the wait after its k-th failed attempt, when another attempt
\* follows, is the k-th of the intervals 1s, 5s, 15s; and its envelope is queued
\* only once all three attempts have failed, after the last of them.
C11_RetryDiscipline ==
    [][ \A r \in 1..Len(runs) :
          /\ Attempts(runs[r]) <= MAX_RETRIES
          /\ Len(runs[r].waits) <= Len(RETRY_DELAYS)
          /\ runs[r].waits = SubSeq(RETRY_DELAYS, 1, Len(runs[r].waits))
          /\ Len(runs[r].waits) =
                 IF runs[r].pc = "send" THEN runs[r].attempt
                 ELSE IF runs[r].pc \in {"queue", "failed"} THEN MAX_RETRIES - 1
                 ELSE runs[r].attempt
          /\ (runs[r].pc # "send" =>
                 /\ Attempts(runs'[r]) = Attempts(runs[r])
                 /\ runs'[r].waits = runs[r].waits)
          /\ (runs[r].pc # "failed" /\ runs'[r].pc = "failed" =>
                 /\ runs[r].pc = "queue"
                 /\ runs[r].attempt = MAX_RETRIES
                 /\ ~runs[r].got2xx
                 /\ queue_file' = Append(queue_file, queue_file'[Len(queue_file')]))
          /\ (queue_file' # queue_file /\ Len(queue_file') > Len(queue_file) =>
                 \E q \in 1..Len(runs) :
                     runs[q].pc = "queue" /\ runs'[q].pc = "failed"
                         /\ runs[q].attempt = MAX_RETRIES) ]_vars

C11_Witness ==
    \E r \in 1..Len(runs) :
        /\ runs[r].pc = "failed"
        /\ runs[r].attempt = MAX_RETRIES
        /\ runs[r].waits = <<1, 5>>
        /\ queue_file # <<>>

\* The lines of `queue` whose numbers are not in `removed`, in order.
RECURSIVE KeepLines(_, _, _)
KeepLines(queue, removed, i) ==
    IF i > Len(queue) THEN <<>>
    ELSE (IF i \in removed THEN <<>> ELSE <<queue[i]>>) \o KeepLines(queue, removed, i + 1)

\* C12 (as claimed): when a call of process_queue returns, it has attempted the
\* delivery of every entry that was in the queue, and the queue holds exactly the
\* entries whose delivery did not succeed: the delivered ones are gone, every
\* other entry is still there.
C12_QueueHoldsUndelivered ==
    [][ (pq.pc = "rewrite" /\ pq'.pc = "idle")
          => /\ pq.attempted = 1..Len(queue_file)
             /\ queue_file' = KeepLines(queue_file, pq.delivered, 1) ]_vars

\* C13 (as claimed): an emit of a valid event type for which no webhook
\* destination is configured leaves the event's envelope in the local queue.
C13_UnconfiguredEmitQueued ==
    [][ ( /\ calls' = calls + 1
          /\ disp_op'.op = "emit"
          /\ IsEventValid(disp_op'.event_type)
          /\ GetWebhookUrl(disp_op'.event_type) = "" )
        => /\ queue_exists'
           /\ \E i \in 1..Len(queue_file') :
                  /\ queue_file'[i].event_type = disp_op'.event_type
                  /\ queue_file'[i].payload.payload.plan_id = disp_op'.plan_id ]_vars

(***************************************************************************)
(* Claims about the plan validator                                         *)
(***************************************************************************)
MutatingActions == {"write_file", "delete_file", "git_commit"}

\* C18 (as claimed): the errors of structural validation name every step whose
\* action is write_file, delete_file or git_commit and whose hitl_required is not
\* true; so a plan without errors has hitl_required = true on all such steps.
C18_MutatingStepsNeedHitl ==
    val_ret # NotValidated =>
        \A i \in 1..Len(Get(plan, "steps", <<>>)) :
            LET step == plan.steps[i]
            IN  (Get(step, "action", "None") \in MutatingActions
                    /\ ~Get(step, "hitl_required", FALSE))
                => \E e \in 1..Len(val_ret.errors) :
                       /\ val_ret.errors[e].kind = "requiere hitl_required=true"
                       /\ val_ret.errors[e].step_id = Get(step, "id", <<>>)

(***************************************************************************)
(* Claims about the approval gate                                          *)
(***************************************************************************)
\* The time of the decision a record holds.
DecidedAt(record) == Get(record, "approved_at", Get(record, "rejected_at", 0))

\* A record for (plan id, step id) exists, says approved, and its approval is not
\* older than 24 hours at time t.
HasValidApproval(plan_id, step_id, t) ==
    /\ <<plan_id, step_id>> \in DOMAIN approvals
    /\ approvals[<<plan_id, step_id>>].approved
    /\ t - DecidedAt(approvals[<<plan_id, step_id>>]) <= 86400

\* C15: for every (plan id, step id) and every state of the approval file that
\* approve_step, reject_step and interactive_approval produce, check_step_approval
\* is true exactly when a record exists with approved=true whose approval is at
\* most 24 hours old; an older approval, a rejection and a missing record give false.
C15_ApprovalValidWithinWindow ==
    \A k \in ApprovalKeys :
        CheckStepApproval(k[1], k[2], approvals, now) = HasValidApproval(k[1], k[2], now)

C15_Witness ==
    \E k \in DOMAIN approvals, j \in DOMAIN approvals :
        /\ approvals[k].approved
        /\ now - approvals[k].approved_at > 86400
        /\ ~CheckStepApproval(k[1], k[2], approvals, now)
        /\ approvals[j].approved
        /\ now - approvals[j].approved_at = 86400
        /\ CheckStepApproval(j[1], j[2], approvals, now)

\* C16 (as claimed): a decision recorded for a (plan id, step id) that has not
\* expired is changed by no later approve_step, reject_step or interactive
\* approval run.
C16_DecisionsAreTerminal ==
    [][ \A k \in DOMAIN approvals :
          (now - DecidedAt(approvals[k]) <= 86400)
              => (k \in DOMAIN approvals' /\ approvals'[k] = approvals[k]) ]_vars

\* A step is gateable: its action is write_file, delete_file or git_commit, or its
\* hitl_required flag is set.
Gateable(step) ==
    \/ Get(step, "action", "None") \in {"write_file", "delete_file", "git_commit"}
    \/ Get(step, "hitl_required", FALSE)

\* C17: check_all_hitl returns true exactly when every gateable step of the plan
\* has a valid unexpired approval at that moment; in particular a plan with no
\* gateable step passes.
C17_GatePassesIffAllApproved ==
    [][ (hitl_op' # hitl_op /\ hitl_op'.op = "check_all_hitl")
          => hitl_op'.ret =
                 \A i \in 1..Len(Get(plan, "steps", <<>>)) :
                     Gateable(plan.steps[i])
                         => HasValidApproval(plan.plan_id, plan.steps[i].id, now) ]_vars

C17_Witness ==
    /\ hitl_op.op = "check_all_hitl"
    /\ hitl_op.ret
    /\ Len(GetWriteSteps(plan)) = 2
    /\ ticks > 0

\* C14 (as claimed): every gateable step the Execute phase has processed had, at
\* the moment it was processed, an approval that check_step_approval accepts.
C14_ProcessedStepsApproved ==
    \A i \in 1..Len(orch.processed) :
        orch.processed[i].gateable => orch.processed[i].approved

(***************************************************************************)
(* Claims about the plan generator                                         *)
(***************************************************************************)
\* The path with separators unified and one leading "./" removed.
NormalizedPrefixOnly(path) ==
    LET p == ReplaceBackslash(path)
    IN  IF Len(p) >= 2 /\ p[1] = "." /\ p[2] = "/" THEN SubSeq(p, 3, Len(p)) ELSE p

\* The path exists on disk or is listed in the file index (as written, or
\* without a leading "./").
ExistsOrIndexed(path) ==
    \/ OsPathExists(path, fs_files)
    \/ path \in indexed
    \/ NormalizedPrefixOnly(path) \in indexed

\* C19 (as claimed): validate_semantic_existence passes exactly when every path of
\* affected_files, every target of a read_file or delete_file step and every
\* analyzed_path of the evidence exists on disk or in the file index; the target
\* of a write_file step never makes it fail.
C19_PassesIffPathsExist ==
    sem_ret # NotChecked =>
        sem_ret.passed =
            /\ \A i \in 1..Len(plan.objective.affected_files) :
                   ExistsOrIndexed(plan.objective.affected_files[i])
            /\ \A i \in 1..Len(plan.steps) :
                   plan.steps[i].action \in {"read_file", "delete_file"}
                       => ExistsOrIndexed(plan.steps[i].target)
            /\ \A i \in 1..Len(plan.evidence.analyzed_paths) :
                   ExistsOrIndexed(plan.evidence.analyzed_paths[i])

\* The paths a plan references: affected_files, the targets of its read_file and
\* delete_file steps, and the analyzed_paths of its evidence.
ReferencedPaths(p) ==
    {p.objective.affected_files[i] : i \in 1..Len(p.objective.affected_files)}
    \cup {p.steps[i].target : i \in {j \in 1..Len(p.steps) :
                                        p.steps[j].action \in {"read_file", "delete_file"}}}
    \cup {p.evidence.analyzed_paths[i] : i \in 1..Len(p.evidence.analyzed_paths)}

\* C20 (as claimed): when the generator writes plans/<plan_id>.json, the plan
\* written is the one that passed the structural and then the semantic validator
\* in this attempt, unchanged, and it references no artifact that does not exist
\* (on disk or in the index) at that moment.
C20_PersistedPlanIsValidated ==
    [][ (gen.pc = "semantic" /\ gen'.pc = "done")
          => /\ <<"final", gen.plan.plan_id>> \in DOMAIN plans_dir'
             /\ plans_dir'[<<"final", gen.plan.plan_id>>] = gen.plan
             /\ gen.struct_passed = <<gen.attempt + 1, gen.plan>>
             /\ gen'.semantic_passed = <<gen.attempt + 1, gen.plan>>
             /\ StructuralErrors(gen.plan) = <<>>
             /\ \A path \in ReferencedPaths(gen.plan) : ExistsOrIndexed(path) ]_vars

\* The validation attempts the generator has started (a pass of the loop that ran
\* validate_plan.py).
ValidationAttempts ==
    IF gen.pc = "idle" THEN 0
    ELSE gen.attempt + (IF gen.pc \in {"semantic", "done"} THEN 1 ELSE 0)

\* C21: generate_plan_with_self_correction ends after at most 3 validation
\* attempts: it returns success at the attempt where both validators pass (every
\* earlier attempt failed), it returns failure only when 3 attempts have failed,
\* and once called it always returns.
C21_TerminatesWithinThreeAttempts ==
    /\ [](/\ ValidationAttempts <= 3
          /\ (gen.pc = "done" =>
                 /\ gen.struct_passed # <<>> /\ gen.semantic_passed # <<>>
                 /\ gen.struct_passed[1] = gen.attempt + 1
                 /\ gen.semantic_passed[1] = gen.attempt + 1)
          /\ (gen.pc = "failed" => gen.attempt = 3 /\ gen.semantic_passed = <<>>)
          /\ (gen.pc \in {"loop", "semantic"} => gen.semantic_passed = <<>>))
    /\ (gen.pc \in {"loop", "semantic"} ~> gen.pc \in {"done", "failed"})

\* The generator succeeded at its third attempt.
C21_Witness == gen.pc = "done" /\ gen.attempt = 2

\* C22: a generator run that has returned left exactly one file in plans/: after
\* success plans/<plan_id>.json, after failure plans/_FAILED_<plan_id>.json, in
\* both cases holding the plan the run ended with; no scratch file is left.
C22_OnePersistedArtifact ==
    /\ (gen.pc = "done" =>
           /\ DOMAIN plans_dir = {<<"final", gen.plan.plan_id>>}
           /\ plans_dir[<<"final", gen.plan.plan_id>>] = gen.plan)
    /\ (gen.pc = "failed" =>
           /\ DOMAIN plans_dir = {<<"_FAILED_", gen.plan.plan_id>>}
           /\ plans_dir[<<"_FAILED_", gen.plan.plan_id>>] = gen.plan)

\* The generator gave up after its third failed attempt.
C22_Witness ==
    /\ gen.pc = "failed"
    /\ <<"_FAILED_", gen.plan.plan_id>> \in DOMAIN plans_dir

\* The file of plans/ a generator run that has returned left its plan in.
PersistedName ==
    <<IF gen.pc = "done" THEN "final" ELSE "_FAILED_", gen.plan.plan_id>>

\* C23: whatever list of affected files the generator is called with, the plan it
\* persists (under either name) lists in affected_files none of the paths of that
\* list that did not exist when it was called, and has at least one step.
C23_NonexistentInputsExcluded ==
    gen.pc \in {"done", "failed"} =>
        /\ PersistedName \in DOMAIN plans_dir
        /\ LET p == plans_dir[PersistedName]
           IN  /\ \A i \in 1..Len(gen.affected_files) :
                      ~OsPathExists(gen.affected_files[i], gen.files_at_call)
                          => \A j \in 1..Len(p.objective.affected_files) :
                                 p.objective.affected_files[j] # gen.affected_files[i]
               /\ Len(p.steps) > 0

\* The generator was given a file that does not exist and persisted a plan.
C23_Witness ==
    /\ gen.pc = "done"
    /\ PersistedName \in DOMAIN plans_dir
    /\ \E i \in 1..Len(gen.affected_files) :
           ~OsPathExists(gen.affected_files[i], gen.files_at_call)

(***************************************************************************)
(* Claims about the orchestrator's pipeline                                *)
(***************************************************************************)
\* s is an initial segment of t.
IsPrefix(s, t) == Len(s) <= Len(t) /\ \A k \in 1..Len(s) : s[k] = t[k]

\* C24: the phases are called in the order pre-flight, gate, execute, evidence,
\* each at most once and only when every earlier phase returned success; once a
\* phase has failed or was interrupted the run has exited and calls nothing more;
\* and the exit code is 0 exactly when all four phases ran and succeeded, 1
\* otherwise.
C24_PhasesInOrder ==
    /\ [](/\ IsPrefix(orch.started, PhaseNames)
          /\ IsPrefix([k \in 1..Len(orch.results) |-> orch.results[k][1]], orch.started)
          /\ \A k \in 1..Len(orch.started) : \A j \in 1..(k - 1) :
                 j <= Len(orch.results) /\ orch.results[j][2]
          /\ ((\/ orch.interrupted
               \/ \E k \in 1..Len(orch.results) : ~orch.results[k][2]
               \/ Len(orch.results) = 4) <=> orch.exit_code # <<>>)
          /\ (orch.exit_code # <<>> =>
                 orch.exit_code =
                     << IF /\ orch.started = PhaseNames
                           /\ Len(orch.results) = 4
                           /\ \A k \in 1..4 : orch.results[k][2]
                        THEN 0 ELSE 1 >>))
    /\ [][orch.exit_code # <<>> => orch' = orch]_vars

\* A run in which all four phases ran and succeeded.
C24_Witness ==
    /\ orch.started = PhaseNames
    /\ Len(orch.results) = 4
    /\ orch.exit_code = <<0>>

\* C25 (as claimed): the audit log holds a record for every entry into a phase
\* and for every outcome of a phase, an interruption by the operator ("halted")
\* included; the log was empty when the run started.
C25_PhasesAudited ==
    Len(log_file) >= Len(orch.started) + Len(orch.results)
                         + (IF orch.interrupted THEN 1 ELSE 0)

\* C26 (as claimed): when the Execute phase processes a step, every step named in
\* its depends_on has been processed before it.
C26_DependencyOrder ==
    \A k \in 1..Len(orch.processed) :
        LET depends_on == Get(plan.steps[k], "depends_on", <<>>)
        IN  \A d \in 1..Len(depends_on) :
                \E j \in 1..(k - 1) : orch.processed[j].step_id = depends_on[d]

\* C27: execute_with_recovery calls task_fn at most max_retries times and
\* never again after a valid response; on success it returns the number of the
\* successful attempt, and on failure the attempt history with exactly one
\* entry per call made, in order, an exception counting as a failed attempt.
C27_BoundedRecovery ==
    rec.pc # "idle" =>
        /\ Len(rec.calls) <= rec.max_retries
        /\ \A i \in 1..Len(rec.calls) :
               /\ rec.calls[i].attempt = i
               /\ i < Len(rec.calls) => ~rec.calls[i].is_valid
        /\ rec.pc = "returned" /\ rec.ret.success =>
               /\ rec.calls # <<>>
               /\ rec.calls[Len(rec.calls)].is_valid
               /\ rec.ret.attempts = Len(rec.calls)
               /\ rec.ret.response = rec.calls[Len(rec.calls)].outcome
        /\ rec.pc = "returned" /\ ~rec.ret.success =>
               /\ Len(rec.calls) = rec.max_retries
               /\ Len(rec.ret.attempts) = Len(rec.calls)
               /\ \A i \in 1..Len(rec.calls) :
                      /\ ~rec.calls[i].is_valid
                      /\ rec.ret.attempts[i].attempt = i
                      /\ ("exception" \in DOMAIN rec.ret.attempts[i])
                             <=> rec.calls[i].outcome.kind = "raise"

\* Both retries were used up, one of them by an exception of task_fn.
C27_Witness ==
    /\ rec.pc = "returned"
    /\ ~rec.ret.success
    /\ Len(rec.ret.attempts) = 2
    /\ rec.calls[1].outcome.kind = "raise"
    /\ rec.calls[2].outcome.kind = "none"

\* C28: validate_agent_response accepts a response only if it is non-empty,
\* parses as JSON when it is text and, for a role with a minimum field set,
\* carries every field of that set when it is an object, given as an object or
\* as text that parses to an object.
C28_AcceptedCarriesFields ==
    rec.pc # "idle" =>
        \A i \in 1..Len(rec.calls) :
            LET response == rec.calls[i].outcome
                parsed == IF response.kind = "str" THEN JsonLoadsText(response.tokens)
                          ELSE JsonError
                is_object == response.kind = "dict" \/ (parsed.ok /\ parsed.kind = "dict")
                fields == IF response.kind = "dict" THEN response.keys
                          ELSE IF parsed.ok THEN parsed.keys ELSE {}
                agent_fields == Get(REQUIRED_FIELDS, rec.agent_id, <<>>)
            IN  rec.calls[i].is_valid =>
                    /\ response.kind # "none"
                    /\ response.kind = "str" => response.tokens # <<>> /\ parsed.ok
                    /\ is_object =>
                           \A k \in 1..Len(agent_fields) : agent_fields[k] \in fields

\* The security-sensitive keywords: "authorization", "credentials",
\* "permission".
SecurityKeywords ==
    { <<97, 117, 116, 104, 111, 114, 105, 122, 97, 116, 105, 111, 110>>,
      <<99, 114, 101, 100, 101, 110, 116, 105, 97, 108, 115>>,
      <<112, 101, 114, 109, 105, 115, 115, 105, 111, 110>> }

\* C29: an error whose text matches a security-sensitive keyword
\* (authorization, credentials, permission) always escalates, whatever the
\* role: should_escalate_to_user returns true for it.
C29_SecurityErrorsEscalate ==
    (/\ esc_op.called
     /\ \E keyword \in SecurityKeywords : Contains(Lower(esc_op.error), keyword))
        => esc_op.ret

\* C30: TaskQueue.get_next returns the pending task with the smallest
\* (priority number, creation time), moves it from pending to in_progress with
\* status in_progress and a start time, and returns nothing and changes nothing
\* when no task is pending.
C30_GetNextTakesFirst ==
    [][ (tq_calls' # tq_calls /\ tq_op'.op = "get_next") =>
            IF DOMAIN tq_files.pending = {}
            THEN tq_op'.ret = <<>> /\ tq_files' = tq_files
            ELSE /\ tq_op'.ret # <<>>
                 /\ LET task == tq_op'.ret[1]
                        pending == tq_files.pending
                    IN  /\ task.id \in DOMAIN pending
                        /\ \A j \in DOMAIN pending :
                               \/ task.priority < pending[j].priority
                               \/ /\ task.priority = pending[j].priority
                                  /\ task.created_tick <= pending[j].created_tick
                        /\ task.priority = pending[task.id].priority
                        /\ task.created_at = pending[task.id].created_at
                        /\ task.status = "in_progress"
                        /\ "started_at" \in DOMAIN task
                        /\ DOMAIN tq_files'.pending = DOMAIN pending \ {task.id}
                        /\ \A j \in DOMAIN tq_files'.pending :
                               tq_files'.pending[j] = pending[j]
                        /\ DOMAIN tq_files'.in_progress
                               = DOMAIN tq_files.in_progress \cup {task.id}
                        /\ \A j \in DOMAIN tq_files'.in_progress :
                               tq_files'.in_progress[j]
                                   = IF j = task.id THEN task ELSE tq_files.in_progress[j]
                        /\ tq_files'.completed = tq_files.completed
                        /\ tq_files'.failed = tq_files.failed ]_vars

\* get_next has just returned a task while two others stay pending: one that
\* was created earlier with a larger priority number, and one with the same
\* priority number created later.
C30_Witness ==
    /\ tq_op.op = "get_next"
    /\ tq_op.ret # <<>>
    /\ tq_op.ret[1].id \in DOMAIN tq_files.in_progress
    /\ \E j \in DOMAIN tq_files.pending :
           /\ tq_files.pending[j].priority > tq_op.ret[1].priority
           /\ tq_files.pending[j].created_tick < tq_op.ret[1].created_tick
    /\ \E j \in DOMAIN tq_files.pending :
           /\ tq_files.pending[j].priority = tq_op.ret[1].priority
           /\ tq_files.pending[j].created_tick > tq_op.ret[1].created_tick

\* C31: TaskQueue.complete and TaskQueue.fail succeed only for a task that is
\* in_progress, and TaskQueue.retry only for a task that is failed, which it
\* moves back to pending; in every other case they return False and leave
\* every task unchanged.
C31_MovesOnlyFromRightState ==
    [][ (tq_calls' # tq_calls /\ tq_op'.op \in {"complete", "fail", "retry"}) =>
            LET task_id == tq_op'.task_id
                from == IF tq_op'.op = "retry" THEN "failed" ELSE "in_progress"
                to == IF tq_op'.op = "retry" THEN "pending"
                      ELSE IF tq_op'.op = "complete" THEN "completed" ELSE "failed"
            IN  IF task_id \in DOMAIN tq_files[from]
                THEN /\ tq_op'.ret = <<TRUE>>
                     /\ DOMAIN tq_files'[from] = DOMAIN tq_files[from] \ {task_id}
                     /\ DOMAIN tq_files'[to] = DOMAIN tq_files[to] \cup {task_id}
                     /\ tq_files'[to][task_id].status = to
                     /\ tq_files'[to][task_id].priority = tq_files[from][task_id].priority
                     /\ \A d \in DOMAIN tq_files : \A j \in DOMAIN tq_files'[d] :
                            j # task_id => /\ j \in DOMAIN tq_files[d]
                                           /\ tq_files'[d][j] = tq_files[d][j]
                     /\ \A d \in DOMAIN tq_files \ {from, to} : tq_files'[d] = tq_files[d]
                ELSE /\ tq_op'.ret = <<FALSE>>
                     /\ tq_files' = tq_files ]_vars

\* A failed task has been retried and is pending again while complete was
\* refused for it before: the queue holds it once, in pending.
C31_Witness ==
    /\ tq_op.op = "retry"
    /\ tq_op.ret = <<TRUE>>
    /\ tq_op.task_id \in DOMAIN tq_files.pending
    /\ tq_op.task_id \notin DOMAIN tq_files.failed
    /\ tq_files.pending[tq_op.task_id].retry_count = 1

\* The directories that hold a file of the task.
DirsOf(files, task_id) == {d \in DOMAIN files : task_id \in DOMAIN files[d]}

\* C39: after any sequence of completed TaskQueue operations every task ever
\* added is in exactly one of the states pending, in_progress, completed and
\* failed, with its status field naming that state; no task is lost or
\* duplicated.
C39_EveryTaskInOneState ==
    /\ [](\A task_id \in TaskIds(tq_files) :
              /\ Cardinality(DirsOf(tq_files, task_id)) = 1
              /\ \A d \in DirsOf(tq_files, task_id) :
                     /\ tq_files[d][task_id].status = d
                     /\ tq_files[d][task_id].id = task_id)
    /\ [][ /\ TaskIds(tq_files) \subseteq TaskIds(tq_files')
           /\ (tq_calls' # tq_calls /\ tq_op'.op = "add") =>
                  /\ tq_op'.ret[1] \notin TaskIds(tq_files)
                  /\ tq_op'.ret[1] \in DOMAIN tq_files'.pending ]_vars

\* Two tasks were added and taken; one has failed since, the other is still
\* in progress.
C39_Witness ==
    /\ Cardinality(DOMAIN tq_files.failed) = 1
    /\ Cardinality(DOMAIN tq_files.in_progress) = 1
    /\ tq_files.pending = NoTasks
    /\ tq_op.op = "fail"

\* C32: Blackboard.set(key, value) always returns, with True, and never
\* blocks forever on the module lock.
C32_SetReturns ==
    \A t \in BbThreads :
        (bb_threads[t].pc \in {"acquire", "set_body"} /\ bb_threads[t].op = "set")
            ~> (bb_threads[t].pc = "returned" /\ bb_threads[t].op = "set")

\* C33: two writers that call AuditTrail.log concurrently are serialized on
\* the append: once both are done the log is hash-chain linked, its sequence
\* numbers are 1, 2, ... in file order, and verify_integrity returns
\* valid=true on it.
C33_ConcurrentWritersSerialized ==
    (\A w \in LogWriters : log_writers[w].pc \in {"idle", "done"}) =>
        /\ \A i \in 1..Len(log_file) :
               /\ log_file[i].previous_hash =
                      IF i = 1 THEN GENESIS ELSE log_file[i - 1].entry_hash
               /\ log_file[i].sequence = i
        /\ VerifyIntegrity(log_exists, log_file).valid

\* C35: when approve_step or reject_step run concurrently for different
\* (plan id, step id) keys, every recorded decision is in the store afterwards.
C35_NoDecisionLost ==
    (\A w \in ApprovalWriters : approval_writers[w].pc = "idle") =>
        \A w \in ApprovalWriters :
            \A key \in approval_writers[w].recorded : key \in DOMAIN approvals

\* C34: delivery attempts for one idempotency key never run concurrently, and
\* the check and the recording of a key are atomic: of two emissions of the same
\* (event type, plan id), none forced, never are both in _send_with_retry at the
\* same time, and never have both got a 2xx answer.
C34_SameKeyNeverConcurrent ==
    ~forced =>
        \A r1, r2 \in 1..Len(runs) :
            (r1 # r2 /\ runs[r1].key # None /\ runs[r1].key = runs[r2].key) =>
                /\ ~(runs[r1].pc \in {"send", "save"} /\ runs[r2].pc \in {"send", "save"})
                /\ ~(runs[r1].got2xx /\ runs[r2].got2xx)

\* C38: an event appended to the durable queue by an emission's background
\* thread is not lost by a process_queue that runs at the same time: once the
\* emissions and process_queue have all finished, the event of every emission
\* that ended in queue_event has been delivered or is still in the queue.
C38_QueuedEventSurvives ==
    (pq.pc = "idle" /\ \A r \in 1..Len(runs) : Ended(runs[r])) =>
        \A r \in 1..Len(runs) :
            runs[r].pc = "failed" =>
                \/ effects[<<runs[r].event_type, runs[r].plan_id>>] > 0
                \/ \E i \in 1..Len(queue_file) :
                       queue_file[i] = QueueEntry(runs[r].event_type,
                           FullPayload(runs[r].event_type, runs[r].plan_id, runs[r].key))

(***************************************************************************)
(* Claims about validate_dependencies                                      *)
(***************************************************************************)
\* The steps `step_id` depends on, those that are steps of the plan.
DependsOn(steps, step_id) ==
    { dep \in {steps[i].id : i \in 1..Len(steps)} :
        \E i \in 1..Len(steps) :
            /\ steps[i].id = step_id
            /\ \E k \in 1..Len(steps[i].depends_on) : steps[i].depends_on[k] = dep }

\* `to` is reached from `from` along one to n depends_on edges.
RECURSIVE Reaches(_, _, _, _)
Reaches(steps, from, to, n) ==
    \E dep \in DependsOn(steps, from) :
        dep = to \/ (n > 1 /\ Reaches(steps, dep, to, n - 1))

\* The depends_on relation of the plan has a cycle: some step reaches itself.
DependsOnHasCycle(p) ==
    \E i \in 1..Len(p.steps) : Reaches(p.steps, p.steps[i].id, p.steps[i].id, Len(p.steps))

CycleReported(errors) ==
    \E k \in 1..Len(errors) : errors[k].kind = "dependencia circular"

\* C36: for a plan with unique step ids, validate_dependencies reports a
\* circular dependency exactly when the depends_on relation among the steps has
\* a cycle, a step that depends on itself included.
C36_CycleReportedIffCycle ==
    val_ret # NotValidated =>
        (CycleReported(val_ret.errors) <=> DependsOnHasCycle(plan))

\* validate_dependencies has run on a plan whose only cycle is the third step
\* depending on itself; the first step is on no cycle, depends on a step by two
\* ways, and a dependency of the third step names no step.
C36_Witness ==
    /\ val_ret # NotValidated
    /\ CycleReported(val_ret.errors)
    /\ ~Reaches(plan.steps, S01, S01, Len(plan.steps))
    /\ plan.steps[1].depends_on = <<S02, S03>>
    /\ plan.steps[2].depends_on = <<S03>>
    /\ plan.steps[3].depends_on = <<S03, S99>>

(***************************************************************************)
(* Claims about the repair of a plan                                       *)
(***************************************************************************)
\* C37: the repair made after a semantic failure strips every nonexistent path
\* (affected files, analyzed paths, targets of read and delete steps), so that
\* the repaired plan passes validate_semantic_existence on the next attempt.
C37_RepairedPlanPasses ==
    (sem_ret # NotChecked /\ sem_ret # Repaired /\ "repaired" \in DOMAIN sem_ret)
        => sem_ret.passed

\* No worker is inside a call of get_next.
NoGetNextRunning == \A w \in TqWorkers : tq_workers[w].pc \in {"idle", "returned", "raised"}

\* C40: two workers that call get_next concurrently never obtain the same task:
\* a task is returned to at most one caller, and once the calls have finished
\* it is in one directory only, in_progress until its caller completes it.
C40_TaskHandedOnce ==
    /\ \A task_id \in TaskIds(tq_files) :
           Cardinality({w \in TqWorkers : task_id \in tq_workers[w].got}) <= 1
    /\ NoGetNextRunning =>
           \A task_id \in TaskIds(tq_files) :
               /\ Cardinality(DirsOf(tq_files, task_id)) = 1
               /\ task_id \in DOMAIN tq_files.in_progress
                      => \E w \in TqWorkers : task_id \in tq_workers[w].got

====
